---- MODULE Spec2Model ----
(***************************************************************************)
(* Verification model of the notes store (einarfd/notes):                  *)
(*   - RWFileLock      (src/src/botnotes/storage/lock.py)                  *)
(*   - NoteService     (src/src/botnotes/services/note_service.py)         *)
(*   - BacklinksIndex  (src/src/notes/links/index.py)                      *)
(*   - link parser     (src/src/botnotes/links/parser.py)                  *)
(*   - Note model      (src/src/notes/models/note.py)                      *)
(* Three specifications share the variables:                               *)
(*   SpecLock : contexts nesting read_lock/write_lock scopes               *)
(*   SpecSvc  : contexts running NoteService operations step by step       *)
(*   Spec     : the data effect of the NoteService operations              *)
(***************************************************************************)
EXTENDS Integers, Sequences, FiniteSets, TLC

\* ------------------------------------------------------------------ bounds
NumCtx == 3          \* execution contexts (threads, spread over processes)
NumSvcCtx == 2       \* contexts that call NoteService operations
MaxDepth == 3        \* deepest nesting of lock scopes explored
MaxFail == 1         \* lock_count is driven at most this far below zero
MaxCalls == 3        \* mutating NoteService calls explored in one history

\* ------------------------------------------------------- RWFileLock state
VARIABLES
  tls,        \* thread-local _ThreadLockState: key -> [fd, lock_count, lock_mode]
  ofd,        \* OS view: flock state of the description opened by a context
  pc,         \* where a context is: "run", or blocked in flock ("flock_sh"/"flock_ex")
  scopes,     \* per context: stack of the open `with` scopes (branch entered)
  lastEvent   \* the most recent lock call and its outcome

lockVars == <<tls, ofd, pc, scopes, lastEvent>>

\* ------------------------------------------- NoteService, seen step by step
VARIABLES
  prog,       \* per context: the rest of the NoteService call it is running
  curOp,      \* per context: the NoteService operation being run
  phase,      \* per context: "idle", "pre" (no access yet), "in", "gap" (lock
              \* released after an access of the running operation)
  handles,    \* per process: which lazy properties of its NoteService are set
  gitRepo,    \* on disk: does notes_dir/.git exist
  indexDir    \* on disk: the search index directory, "ok" or "mismatch"

svcVars == <<prog, curOp, phase, handles, gitRepo, indexDir>>

\* ---------------------------------------------------- the store's contents
VARIABLES
  files,      \* notes_dir: file key -> [title, content, tags]
  docs,       \* search index: document path -> [title, content, tags]
  blLinks,    \* BacklinksIndex._links of the service instance
  blLoaded,   \* BacklinksIndex._loaded
  blFile,     \* backlinks.json: [exists, links]
  journal,    \* the commits of the notes repository, oldest first
  failed,     \* how many mutating calls raised after their first side effect
  result      \* what the last NoteService call returned or raised

dataVars == <<files, docs, blLinks, blLoaded, blFile, journal, failed, result>>

Ctx == 1..NumCtx

\* contexts 1,2 are threads of process 1; every further context is its own process
ProcOf(c) == IF c <= 2 THEN 1 ELSE c - 1

MODE_NONE == 0
MODE_READ == 1
MODE_WRITE == 2

ThreadLockState == [fd |-> FALSE, lock_count |-> 0, lock_mode |-> MODE_NONE]

\* a state object shared by the threads of a process (what threading.local avoids)
get_state_shared(c) == IF ProcOf(c) = 1 THEN 1 ELSE c

\* _get_state: the key of the calling thread's own state object
get_state(c) == c

State(c) == tls[get_state(c)]

\* flock operation requested by the outermost write_lock, as a shared request
WriteFlockOp_shared == "SH"

\* the flock operation of the outermost write_lock / read_lock
WriteFlockOp == "EX"

ReadFlockOp_exclusive == "EX"

ReadFlockOp == "SH"

\* a lock file of its own for every process: requests of other processes
\* never conflict
FlockCompatible_per_process(c, op) ==
  \A d \in Ctx :
    ProcOf(d) = ProcOf(c) =>
      /\ ofd[d] # "EX"
      /\ (op = "EX" => ofd[d] = "UN")

\* flock(2): a request through a freshly opened description conflicts with the
\* locks held through every other description, whichever thread or process
\* opened it (ofd[c] is the description of c's earlier, still open acquisition)
FlockCompatible(c, op) ==
  \A d \in Ctx :
    /\ ofd[d] # "EX"
    /\ (op = "EX" => ofd[d] = "UN")

Event(c, op, res) == [ctx |-> c, op |-> op, res |-> res]

Push(c, frame) == [scopes EXCEPT ![c] = Append(@, frame)]
Pop(c) == [scopes EXCEPT ![c] = SubSeq(@, 1, Len(@) - 1)]
Top(c) == scopes[c][Len(scopes[c])]

LockInit0 ==
  /\ tls = [k \in Ctx |-> ThreadLockState]
  /\ ofd = [c \in Ctx |-> "UN"]
  /\ pc = [c \in Ctx |-> "run"]
  /\ scopes = [c \in Ctx |-> <<>>]
  /\ lastEvent = Event(0, "init", "ok")

\* read_lock without its MODE_WRITE branch: a read inside a write scope goes
\* on to request the shared lock through a second descriptor
ReadBranch_noWriteCase(s) ==
  IF s.lock_mode = MODE_READ THEN "r_in_r" ELSE "acquire"

\* read_lock, lines 76-94: which of its three branches a call takes
ReadBranch(s) ==
  IF s.lock_mode = MODE_WRITE THEN "r_in_w"
  ELSE IF s.lock_mode = MODE_READ THEN "r_in_r"
  ELSE "acquire"

\* write_lock without the lock-order check: a write inside a read scope goes
\* on to request the exclusive lock
WriteBranch_upgrade(s) ==
  IF s.lock_mode = MODE_WRITE THEN "w_in_w" ELSE "acquire"

\* write_lock, lines 122-137: which of its three branches a call takes
WriteBranch(s) ==
  IF s.lock_mode = MODE_WRITE THEN "w_in_w"
  ELSE IF s.lock_mode = MODE_READ THEN "raise"
  ELSE "acquire"

\* read_lock() up to its yield or up to the blocking flock call
read_lock(c) ==
  /\ pc[c] = "run"
  /\ Len(scopes[c]) < MaxDepth
  /\ LET b == ReadBranch(State(c)) IN
     IF b \in {"r_in_w", "r_in_r"}
     THEN /\ tls' = [tls EXCEPT ![get_state(c)].lock_count = @ + 1]
          /\ scopes' = Push(c, b)
          /\ lastEvent' = Event(c, "read_lock", "reentered")
          /\ UNCHANGED <<ofd, pc>>
     ELSE /\ pc' = [pc EXCEPT ![c] = "flock_sh"]
          /\ lastEvent' = Event(c, "read_lock", "flock")
          /\ UNCHANGED <<tls, ofd, scopes>>

\* write_lock() up to its yield, its raise, or up to the blocking flock call
write_lock(c) ==
  /\ pc[c] = "run"
  /\ Len(scopes[c]) < MaxDepth
  /\ LET b == WriteBranch(State(c)) IN
     IF b = "w_in_w"
     THEN /\ tls' = [tls EXCEPT ![get_state(c)].lock_count = @ + 1]
          /\ scopes' = Push(c, b)
          /\ lastEvent' = Event(c, "write_lock", "reentered")
          /\ UNCHANGED <<ofd, pc>>
     ELSE IF b = "raise"
     THEN /\ lastEvent' = Event(c, "write_lock", "LockOrderError")
          /\ UNCHANGED <<tls, ofd, pc, scopes>>
     ELSE /\ pc' = [pc EXCEPT ![c] = "flock_ex"]
          /\ lastEvent' = Event(c, "write_lock", "flock")
          /\ UNCHANGED <<tls, ofd, scopes>>

FlockOpAt(c) == IF pc[c] = "flock_sh" THEN ReadFlockOp ELSE WriteFlockOp

\* the finally clause of the outermost branch (lines 102-108 / 145-151)
OuterFinally(c, t, o) ==
  LET k == get_state(c)
      n == t[k].lock_count - 1
  IN  IF n = 0
      THEN <<[t EXCEPT ![k] = [fd |-> FALSE, lock_count |-> 0, lock_mode |-> MODE_NONE]],
             [o EXCEPT ![c] = "UN"]>>
      ELSE <<[t EXCEPT ![k].lock_count = n], o>>

\* the blocking flock returns: the lock is granted and the scope body starts
flock_granted(c) ==
  /\ pc[c] \in {"flock_sh", "flock_ex"}
  /\ FlockCompatible(c, FlockOpAt(c))
  /\ ofd' = [ofd EXCEPT ![c] = FlockOpAt(c)]
  /\ tls' = [tls EXCEPT ![get_state(c)] =
               [fd |-> TRUE, lock_count |-> 1,
                lock_mode |-> IF pc[c] = "flock_sh" THEN MODE_READ ELSE MODE_WRITE]]
  /\ scopes' = Push(c, IF pc[c] = "flock_sh" THEN "outer_r" ELSE "outer_w")
  /\ pc' = [pc EXCEPT ![c] = "run"]
  /\ lastEvent' = Event(c, "flock", "granted")

\* flock raises (OSError, or an interrupt while blocked): the call sits inside
\* the try, so the finally clause runs although nothing was acquired
flock_raises(c) ==
  /\ pc[c] \in {"flock_sh", "flock_ex"}
  /\ State(c).lock_count > 0 - MaxFail
  /\ LET r == OuterFinally(c, tls, ofd) IN
       /\ tls' = r[1]
       /\ ofd' = r[2]
  /\ pc' = [pc EXCEPT ![c] = "run"]
  /\ lastEvent' = Event(c, "flock", "OSError")
  /\ UNCHANGED scopes

\* scope exit when the body raised: without the finally clause nothing runs
ExitRuns_onlyNormal(raised) == ~raised

\* try/finally: the exit code runs on normal exit and when the body raised
ExitRuns(raised) == TRUE

\* leaving the innermost open scope, normally or by an exception of the body
scope_exit(c, raised) ==
  /\ pc[c] = "run"
  /\ scopes[c] # <<>>
  /\ IF ~ExitRuns(raised)
     THEN UNCHANGED <<tls, ofd>>
     ELSE IF Top(c) \in {"outer_r", "outer_w"}
     THEN LET r == OuterFinally(c, tls, ofd) IN
            /\ tls' = r[1]
            /\ ofd' = r[2]
     ELSE /\ tls' = [tls EXCEPT ![get_state(c)].lock_count = @ - 1]
          /\ UNCHANGED ofd
  /\ scopes' = Pop(c)
  /\ lastEvent' = Event(c, "exit", IF raised THEN "raised" ELSE "ok")
  /\ UNCHANGED pc

\* a lock call changes nothing but the lock
LockOnly == UNCHANGED <<prog, curOp, phase, handles, gitRepo, indexDir,
                        files, docs, blLinks, blLoaded, blFile, journal, failed, result>>

LockNext ==
  \E c \in Ctx :
    \/ read_lock(c) /\ LockOnly
    \/ write_lock(c) /\ LockOnly
    \/ flock_granted(c) /\ LockOnly
    \/ flock_raises(c) /\ LockOnly
    \/ \E raised \in BOOLEAN : scope_exit(c, raised) /\ LockOnly

vars == <<tls, ofd, pc, scopes, lastEvent, prog, curOp, phase, handles, gitRepo, indexDir,
          files, docs, blLinks, blLoaded, blFile, journal, failed, result>>

Procs == {ProcOf(c) : c \in Ctx}

\* the lazy properties whose construction touches the disk: index and git
NoHandles == [index |-> FALSE, git |-> FALSE]

\* NoteService.__init__: no lazy property is set yet
SvcInit0 ==
  /\ prog = [c \in Ctx |-> <<>>]
  /\ curOp = [c \in Ctx |-> "none"]
  /\ phase = [c \in Ctx |-> "idle"]
  /\ handles = [p \in Procs |-> NoHandles]

\* functions on a changing set of keys
Without(f, k) == [x \in DOMAIN f \ {k} |-> f[x]]
With(f, k, v) == [x \in DOMAIN f \cup {k} |-> IF x = k THEN v ELSE f[x]]
EmptyMap == [x \in {} |-> 0]

\* a store nothing was written to yet
DataInit0 ==
  /\ files = EmptyMap
  /\ docs = EmptyMap
  /\ blLinks = EmptyMap
  /\ blLoaded = FALSE
  /\ blFile = [exists |-> FALSE, links |-> EmptyMap]
  /\ journal = <<>>
  /\ failed = 0
  /\ result = [op |-> "init", status |-> "ok"]

LockInit == LockInit0 /\ SvcInit0 /\ DataInit0 /\ gitRepo = TRUE /\ indexDir = "ok"

SpecLock == LockInit /\ [][LockNext]_vars

\* ------------------------------------------------------------ lock claims
\* a context is inside the body of a write_lock / read_lock scope that took
\* the lock itself (its critical section as a holder)
InWriteCS(c) == \E i \in 1..Len(scopes[c]) : scopes[c][i] = "outer_w"
InReadCS(c) == \E i \in 1..Len(scopes[c]) : scopes[c][i] = "outer_r"
IsCall(c, op) == lastEvent'.ctx = c /\ lastEvent'.op = op

\* C1: while one context is inside a write critical section no other context
\* (thread or process) is inside a write or a read critical section.
C1_WriterExcludesAll ==
  \A c \in Ctx : \A d \in Ctx \ {c} :
    InWriteCS(c) => ~InWriteCS(d) /\ ~InReadCS(d)

\* a writer is in its critical section while a reader and a writer wait
C1_Witness ==
  \E c \in Ctx : \E d \in Ctx \ {c} : \E e \in Ctx \ {c, d} :
    InWriteCS(c) /\ pc[d] = "flock_sh" /\ pc[e] = "flock_ex"

\* C2: while no context holds the write lock, a context waiting in the shared
\* flock of read_lock can be granted it, however many readers already hold.
C2_ReadersNotBlocked ==
  \A c \in Ctx :
    (pc[c] = "flock_sh" /\ \A d \in Ctx \ {c} : ~InWriteCS(d))
      => ENABLED flock_granted(c)

\* every context is inside a read critical section at the same time
C2_Witness == \A c \in Ctx : InReadCS(c)

\* C3: write_lock by a thread in read mode raises the lock-order error at
\* once (it never reaches flock) and leaves the thread's mode, depth, open
\* scopes and shared OS hold as they were.
C3_WriteInReadRaises ==
  [][\A c \in Ctx :
       (IsCall(c, "write_lock") /\ State(c).lock_mode = MODE_READ)
         => /\ lastEvent'.res = "LockOrderError"
            /\ pc'[c] = "run"
            /\ tls'[get_state(c)] = tls[get_state(c)]
            /\ tls[get_state(c)].lock_mode = MODE_READ
            /\ scopes'[c] = scopes[c]
            /\ ofd[c] = "SH" /\ ofd'[c] = "SH"]_vars

\* a nested reader has just been refused the write lock
C3_Witness ==
  /\ lastEvent.res = "LockOrderError"
  /\ State(lastEvent.ctx).lock_mode = MODE_READ
  /\ State(lastEvent.ctx).lock_count = 2
  /\ ofd[lastEvent.ctx] = "SH"

\* C4: read_lock by a thread in write mode only increments depth (no flock,
\* mode stays write), and the exclusive OS lock is held for as long as the
\* outermost write scope is open.
C4_ReadInsideWrite ==
  /\ [](\A c \in Ctx :
          InWriteCS(c) => ofd[c] = "EX" /\ State(c).lock_mode = MODE_WRITE)
  /\ [][\A c \in Ctx :
          (IsCall(c, "read_lock") /\ State(c).lock_mode = MODE_WRITE)
            => /\ lastEvent'.res = "reentered"
               /\ pc'[c] = "run"
               /\ tls'[get_state(c)] =
                    [tls[get_state(c)] EXCEPT !.lock_count = @ + 1]
               /\ ofd' = ofd]_vars

\* a read scope was entered and left again inside a write scope that is
\* still open and still holds the exclusive lock
C4_Witness ==
  \E c \in Ctx :
    /\ lastEvent = Event(c, "exit", "ok")
    /\ scopes[c] = <<"outer_w">>
    /\ ofd[c] = "EX"
    /\ State(c).lock_count = 1

\* C5: depth >= 0, mode none exactly at depth 0, and the OS lock held in the
\* recorded mode exactly at depth >= 1, in every state and for every thread.
C5_DepthInvariant ==
  \A c \in Ctx :
    /\ State(c).lock_count >= 0
    /\ (State(c).lock_mode = MODE_NONE <=> State(c).lock_count = 0)
    /\ (ofd[c] # "UN" <=> State(c).lock_count >= 1)
    /\ (ofd[c] = "SH" <=> State(c).lock_mode = MODE_READ)
    /\ (ofd[c] = "EX" <=> State(c).lock_mode = MODE_WRITE)

\* C6: a scope left by an exception has its depth decremented, and when it
\* was the outermost scope the OS lock is released and the mode is none, so
\* the failed scope blocks no later acquisition.
C6_ExceptionReleases ==
  [][\A c \in Ctx :
       (IsCall(c, "exit") /\ lastEvent'.res = "raised")
         => /\ tls'[get_state(c)].lock_count = tls[get_state(c)].lock_count - 1
            /\ (Len(scopes[c]) = 1
                  => /\ ofd'[c] = "UN"
                     /\ tls'[get_state(c)] = ThreadLockState
                     /\ \A d \in Ctx \ {c} :
                          FlockCompatible(d, "EX")' \/ \E e \in Ctx \ {c} : ofd'[e] # "UN")
            /\ (Len(scopes[c]) > 1
                  => /\ ofd'[c] = ofd[c]
                     /\ tls'[get_state(c)].lock_mode = tls[get_state(c)].lock_mode)]_vars

\* an outermost write scope was left by an exception while a writer waits
C6_Witness ==
  \E c \in Ctx : \E d \in Ctx \ {c} :
    /\ lastEvent = Event(c, "exit", "raised")
    /\ scopes[c] = <<>>
    /\ ofd[c] = "UN"
    /\ pc[d] = "flock_ex"

\* C7: a lock call by one thread leaves the {mode, depth} every other thread
\* sees unchanged; starting from mode none and depth 0, a thread therefore
\* keeps seeing that whatever the others acquire.
C7_ThreadIsolation ==
  /\ \A c \in Ctx : State(c) = ThreadLockState
  /\ [][\A c \in Ctx :
          lastEvent'.ctx # c => tls'[get_state(c)] = tls[get_state(c)]]_vars

\* a thread that has no scope open sees none/0 while another thread of the
\* same process is two scopes deep in write mode
C7_Witness ==
  /\ scopes[1] = <<>> /\ pc[1] = "run"
  /\ State(1) = ThreadLockState
  /\ State(2).lock_mode = MODE_WRITE /\ State(2).lock_count = 2

\* ------------------------------------------------------ paths and content
\* A path string is the sequence of its "/"-separated segments: "a" is
\* <<"a">>, "p/x" is <<"p","x">>, "/a" is <<"","a">>, "p//x" is <<"p","","x">>.
RECURSIVE lstrip(_)
\* str.lstrip("/") of validate_path and _sanitize_path: drop leading slashes
lstrip(p) == IF p # <<>> /\ Head(p) = "" THEN lstrip(Tail(p)) ELSE p

IsEmpty(p) == \A i \in 1..Len(p) : p[i] = ""

\* a segment with a character outside [\w\-/], which validate_path rejects
BadSegment == "my note"

\* Note.validate_path: is the path accepted, and the path the note then has
path_valid(p) ==
  ~IsEmpty(p) /\ ~\E i \in 1..Len(p) : p[i] \in {"..", BadSegment}
validate_path(p) == lstrip(p)

\* Note.validate_title: the stripped title is not empty and at most 200
\* characters long; a title is known by its length
MaxTitleLen == 200
LongTitle == "x * 201"
TitleLen(t) ==
  IF t = "" THEN 0 ELSE IF t = LongTitle THEN MaxTitleLen + 1 ELSE 2
title_valid(t) == TitleLen(t) >= 1 /\ TitleLen(t) <= MaxTitleLen

\* Note.from_markdown ends in the constructor, which runs the validators on
\* the path it is given and the title it parsed; storage.load raises when
\* they reject
from_markdown_ok(path, note) == path_valid(path) /\ title_valid(note.title)

\* FilesystemStorage._path_to_file: the file a path names, as the key list_all
\* reports for it; pathlib joins the path to base_dir, which collapses repeated
\* slashes, so "p//x" and "p/x" are the same file
path_to_file(p) == SelectSeq(lstrip(p), LAMBDA seg : seg # "")

\* str.strip() of _sanitize_path, on the path as one string: blanks go from
\* the front of the first segment and from the end of the last
RECURSIVE lstrip_blank(_)
lstrip_blank(t) == IF t # "" /\ Head(t) = " " THEN lstrip_blank(Tail(t)) ELSE t
RECURSIVE rstrip_blank(_)
rstrip_blank(t) ==
  IF t # "" /\ SubSeq(t, Len(t), Len(t)) = " "
  THEN rstrip_blank(SubSeq(t, 1, Len(t) - 1)) ELSE t
strip(p) ==
  IF p = <<>> THEN p
  ELSE LET q == [p EXCEPT ![1] = lstrip_blank(@)]
       IN  [q EXCEPT ![Len(q)] = rstrip_blank(@)]

\* the directory that holds the storage root, and the root in it
BaseDir == <<"srv", "notes">>

\* Path.resolve() on folders: empty and "." segments drop out, ".." drops the
\* folder before it and stays at the top of the filesystem
RECURSIVE resolve(_, _)
resolve(todo, done) ==
  IF todo = <<>> THEN done
  ELSE IF Head(todo) \in {"", "."} THEN resolve(Tail(todo), done)
  ELSE IF Head(todo) = ".."
  THEN resolve(Tail(todo), IF done = <<>> THEN done
                           ELSE SubSeq(done, 1, Len(done) - 1))
  ELSE resolve(Tail(todo), Append(done, Head(todo)))

\* the folder of (base_dir / f"{clean}.md").resolve(): the last segment of
\* clean is the stem of a file name, whatever it is
resolved_parent(clean) ==
  resolve(BaseDir \o SubSeq(clean, 1, Len(clean) - 1), <<>>)

\* Path.is_relative_to(base_dir)
is_relative_to(folder) ==
  Len(folder) >= Len(BaseDir) /\ SubSeq(folder, 1, Len(BaseDir)) = BaseDir

\* a check that looks for ".." at the front of the path only
sanitize_ok_leading(p) ==
  LET clean == lstrip(strip(p))
  IN  clean # <<>> /\ Head(clean) # ".."

\* FilesystemStorage._sanitize_path raises for an empty path and for a path
\* that resolves outside base_dir
sanitize_ok(p) ==
  LET clean == lstrip(strip(p))
  IN  clean # <<>> /\ is_relative_to(resolved_parent(clean))

\* content: a sequence of lines, a line the sequence of its wiki links
\* [[t]] / [[t|d]]; ws marks blanks around the target inside the brackets
Link(t, d) == [t |-> t, ws |-> FALSE, d |-> d]
WikiLink(t, d, n) == [target_path |-> t, display_text |-> d, line_number |-> n]

RECURSIVE LineLinks(_, _)
LineLinks(line, n) ==
  IF line = <<>> THEN <<>>
  ELSE <<WikiLink(Head(line).t, Head(line).d, n)>> \o LineLinks(Tail(line), n)

RECURSIVE LinksFrom(_, _)
LinksFrom(content, n) ==
  IF n > Len(content) THEN <<>>
  ELSE LineLinks(content[n], n) \o LinksFrom(content, n + 1)

\* parser.extract_links: every link with its stripped target and 1-based line
extract_links(content) == LinksFrom(content, 1)

\* parser.replace_link_target: links whose stripped target equals old_path
\* get the new target, keeping their display text
replace_link_target(content, old_path, new_path) ==
  [n \in 1..Len(content) |->
     [j \in 1..Len(content[n]) |->
        IF content[n][j].t = old_path
        THEN [t |-> new_path, ws |-> FALSE, d |-> content[n][j].d]
        ELSE content[n][j]]]

\* --------------------------------------------------------- BacklinksIndex
\* _links: target -> (source -> line numbers), as functions on their keys

\* a removal that leaves the old entries of the source in place
RemoveSource_keeps(links, source_path) == links

\* update_note_links lines 90-95 / remove_note lines 118-122
RemoveSource(links, source_path) ==
  LET kept == {t \in DOMAIN links : DOMAIN links[t] # {source_path}}
  IN  [t \in kept |-> Without(links[t], source_path)]

\* an insertion that records the line of every link it is given
AddLink_appends(links, source_path, link) ==
  LET t == link.target_path
      inner == IF t \in DOMAIN links THEN links[t] ELSE EmptyMap
      lines == IF source_path \in DOMAIN inner THEN inner[source_path] ELSE <<>>
  IN  With(links, t, With(inner, source_path, Append(lines, link.line_number)))

\* update_note_links lines 99-105, for one link
AddLink(links, source_path, link) ==
  LET t == link.target_path
      inner == IF t \in DOMAIN links THEN links[t] ELSE EmptyMap
      lines == IF source_path \in DOMAIN inner THEN inner[source_path] ELSE <<>>
      lines2 == IF \E i \in 1..Len(lines) : lines[i] = link.line_number
                THEN lines ELSE Append(lines, link.line_number)
  IN  With(links, t, With(inner, source_path, lines2))

RECURSIVE AddLinks(_, _, _)
AddLinks(links, source_path, ls) ==
  IF ls = <<>> THEN links
  ELSE AddLinks(AddLink(links, source_path, Head(ls)), source_path, Tail(ls))

\* BacklinksIndex.update_note_links: full replace of the source's links
update_note_links(links, source_path, ls) ==
  AddLinks(RemoveSource(links, source_path), source_path, ls)

\* remove_note that forgets the entries of the removed note
remove_note_keeps(links, path) == links

\* BacklinksIndex.remove_note
remove_note(links, path) == RemoveSource(links, path)

\* sorted(lines) of get_backlinks
sorted(lines) == SortSeq(lines, LAMBDA a, b : a < b)

\* BacklinksIndex.get_backlinks: the sources recorded under the target
get_backlinks(links, target_path) ==
  IF target_path \notin DOMAIN links THEN {}
  ELSE {[source_path |-> src, line_numbers |-> sorted(links[target_path][src])] :
          src \in DOMAIN links[target_path]}

\* BacklinksIndex.rename_target: the entry of old_path goes to new_path
rename_target(links, old_path, new_path) ==
  IF old_path \in DOMAIN links
  THEN With(Without(links, old_path), new_path, links[old_path])
  ELSE links

RECURSIVE RebuildFrom(_, _, _)
RebuildFrom(links, notes, todo) ==
  IF todo = {} THEN links
  ELSE LET p == CHOOSE x \in todo : TRUE
           ls == extract_links(notes[p].content)
       IN  RebuildFrom(IF ls # <<>> THEN update_note_links(links, p, ls) ELSE links,
                       notes, todo \ {p})

\* a clear that leaves the entries in place
clear_keeps(links) == links

\* BacklinksIndex.clear
clear(links) == EmptyMap

\* BacklinksIndex.rebuild on the index links, over the notes rebuild_indexes
\* loads from storage
rebuild_links(links, notes) == RebuildFrom(clear(links), notes, DOMAIN notes)

\* what BacklinksIndex.rebuild leaves for these notes
rebuild(notes) == rebuild_links(EmptyMap, notes)

\* ------------------------------------------------------------ SearchIndex
\* the documents of the index as a function path -> note

\* SearchIndex.clear
search_clear(ds) == EmptyMap

RECURSIVE IndexNotes(_, _, _)
\* SearchIndex.rebuild lines 148-149: index_note for every note
IndexNotes(ds, notes, todo) ==
  IF todo = {} THEN ds
  ELSE LET p == CHOOSE x \in todo : TRUE
       IN  IndexNotes(With(ds, p, notes[p]), notes, todo \ {p})

\* SearchIndex.rebuild
search_rebuild(ds, notes) == IndexNotes(search_clear(ds), notes, DOMAIN notes)

\* ------------------------------------- NoteService operations as programs
\* One instruction per lock call and per call into storage, the search index,
\* the backlink index or the journal, in source order.  "alt" is a branch on
\* data (note found or not, move or not, ...): one alternative is chosen and
\* the instructions after the alt follow it.
I(i, r, k) == [i |-> i, r |-> r, k |-> k]
W == I("write_lock", "", "")
R == I("read_lock", "", "")
X == I("exit", "", "")
RET == I("return", "", "")
RAISE == I("raise", "", "")
UNWIND == I("unwind", "", "")
ALT(alts) == I("alt", alts, "")
Sr == I("acc", "storage", "read")
Sm == I("acc", "storage", "mutate")
Ir == I("acc", "index", "read")
Im == I("acc", "index", "mutate")
Br == I("acc", "backlinks", "read")
Bm == I("acc", "backlinks", "mutate")
Gr == I("acc", "git", "read")
Gm == I("acc", "git", "mutate")

\* create_note, lines 118-135 (Note(...) may raise a validation error)
create_prog == <<W, ALT({<<RAISE>>, <<Sm, Im, Bm, Gm>>}), X, RET>>

\* read_note, lines 146-147
read_prog == <<R, Sr, X, RET>>

\* update_note lines 254-265: save in place
update_inplace == <<Sm, Im, ALT({<<>>, <<Bm>>}), Gm>>

\* update_note lines 210-253: move, with at most one linking note rewritten
update_move ==
  <<Sr, ALT({<<RAISE>>,
             <<Br, ALT({<<>>, <<Sr, Sm, Bm>>}),
               Sm, Im, Bm, Sm, Im, Bm, Gm>>})>>

\* update_note lines 184-271, the part inside its write scope
update_body == <<W, Sr, ALT({<<>>, update_inplace, update_move}), X>>

\* update_note, lines 181-271 (line 182 raises before any lock is taken)
update_prog == <<ALT({<<RAISE>>, update_body})>> \o <<RET>>

\* delete_note, lines 283-293
delete_prog == <<W, Br, ALT({<<Sr>>, <<Sm, Im, Bm, Gm>>}), X, RET>>

\* list_notes / list_notes_in_folder / list_tags / find_by_tag, lines 295-359
list_prog == <<R, Sr, X, RET>>

\* search_notes, lines 326-327
search_prog == <<R, Ir, X, RET>>

\* get_backlinks, lines 372-373
get_backlinks_prog == <<R, Br, X, RET>>

\* rebuild_indexes, lines 386-402
rebuild_prog == <<W, Sr, Im, Bm, X, RET>>

\* get_note_history / get_note_version / diff_note_versions, lines 406-452
history_body == <<R, Gr, X>>
history_prog == history_body \o <<RET>>

\* restore_note_version, lines 472-488: get_note_version and update_note run
\* inside its write scope
restore_prog ==
  <<W>> \o history_body \o <<ALT({<<>>, update_body})>> \o <<X, RET>>

Ops == {"create", "read", "update", "delete", "list", "search",
        "get_backlinks", "rebuild", "history", "restore"}

OpProg(op) ==
  CASE op = "create" -> create_prog
    [] op = "read" -> read_prog
    [] op = "update" -> update_prog
    [] op = "delete" -> delete_prog
    [] op = "list" -> list_prog
    [] op = "search" -> search_prog
    [] op = "get_backlinks" -> get_backlinks_prog
    [] op = "rebuild" -> rebuild_prog
    [] op = "history" -> history_prog
    [] op = "restore" -> restore_prog

SvcCtx == 1..NumSvcCtx

Head1(c) == Head(prog[c])
Running(c) == prog[c] # <<>> /\ pc[c] = "run"
Advance(c) == prog' = [prog EXCEPT ![c] = Tail(@)]
Unwind(c) == prog' = [prog EXCEPT ![c] = <<UNWIND>>]

\* releasing the OS lock after the operation's first access opens a gap
PhaseAfterExit(c) ==
  phase' = [phase EXCEPT ![c] =
              IF @ = "in" /\ ofd'[c] = "UN" THEN "gap" ELSE @]

\* a front end calls a NoteService operation
StartOp(c, op) ==
  /\ prog[c] = <<>>
  /\ pc[c] = "run"
  /\ prog' = [prog EXCEPT ![c] = OpProg(op)]
  /\ curOp' = [curOp EXCEPT ![c] = op]
  /\ phase' = [phase EXCEPT ![c] = "pre"]
  /\ lastEvent' = Event(c, "call", op)
  /\ UNCHANGED <<tls, ofd, pc, scopes, handles, gitRepo, indexDir>>

\* a branch on data
Branch(c) ==
  /\ Running(c)
  /\ Head1(c).i = "alt"
  /\ \E a \in Head1(c).r : prog' = [prog EXCEPT ![c] = a \o Tail(@)]
  /\ lastEvent' = Event(c, "branch", curOp[c])
  /\ UNCHANGED <<tls, ofd, pc, scopes, curOp, phase, handles, gitRepo, indexDir>>

\* `with self._lock.read_lock()` / `with self._lock.write_lock()`
EnterScope(c) ==
  /\ Running(c)
  /\ \/ Head1(c).i = "read_lock" /\ read_lock(c)
     \/ Head1(c).i = "write_lock" /\ write_lock(c)
  /\ IF lastEvent'.res = "LockOrderError" THEN Unwind(c) ELSE Advance(c)
  /\ UNCHANGED <<curOp, phase, handles, gitRepo, indexDir>>

\* the blocking flock of the outermost scope returns
FlockReturns(c) ==
  /\ prog[c] # <<>>
  /\ flock_granted(c)
  /\ UNCHANGED svcVars

\* the blocking flock raises: the exception leaves the operation
FlockRaises(c) ==
  /\ prog[c] # <<>>
  /\ flock_raises(c)
  /\ Unwind(c)
  /\ UNCHANGED <<curOp, phase, handles, gitRepo, indexDir>>

\* the end of a `with` block
ExitScope(c) ==
  /\ Running(c)
  /\ Head1(c).i = "exit"
  /\ scope_exit(c, FALSE)
  /\ Advance(c)
  /\ PhaseAfterExit(c)
  /\ UNCHANGED <<curOp, handles, gitRepo, indexDir>>

\* the lazy property builds its object on first use: GitRepository runs
\* ensure_initialized (git init when .git is missing), SearchIndex deletes
\* and recreates an index directory whose schema does not match
LazyMutates(c, r) ==
  /\ r \in DOMAIN NoHandles
  /\ ~handles[ProcOf(c)][r]
  /\ \/ r = "git" /\ ~gitRepo
     \/ r = "index" /\ indexDir = "mismatch"

\* one call into storage, an index or the journal, through its lazy property
Access(c) ==
  /\ Running(c)
  /\ Head1(c).i = "acc"
  /\ LET r == Head1(c).r IN
       /\ handles' = IF r \in DOMAIN NoHandles
                     THEN [handles EXCEPT ![ProcOf(c)][r] = TRUE]
                     ELSE handles
       /\ gitRepo' = (gitRepo \/ r = "git")
       /\ indexDir' = IF r = "index" THEN "ok" ELSE indexDir
       /\ lastEvent' = [ctx |-> c, op |-> "access", res |-> r,
                        kind |-> Head1(c).k,
                        lazyMutates |-> LazyMutates(c, r),
                        svcop |-> curOp[c],
                        mode |-> State(c).lock_mode,
                        held |-> ofd[c],
                        afterRelease |-> (phase[c] = "gap")]
  /\ phase' = [phase EXCEPT ![c] = IF @ = "pre" THEN "in" ELSE @]
  /\ Advance(c)
  /\ UNCHANGED <<tls, ofd, pc, scopes, curOp>>

\* a failing call is made again instead of raising
AccessRaises_retries(c) ==
  /\ Running(c)
  /\ Head1(c).i \in {"acc", "raise"}
  /\ lastEvent' = Event(c, "raise", curOp[c])
  /\ UNCHANGED <<tls, ofd, pc, scopes, prog, curOp, phase, handles, gitRepo, indexDir>>

\* a call into storage, an index or the journal raises, or the code raises
AccessRaises(c) ==
  /\ Running(c)
  /\ Head1(c).i \in {"acc", "raise"}
  /\ Unwind(c)
  /\ lastEvent' = Event(c, "raise", curOp[c])
  /\ UNCHANGED <<tls, ofd, pc, scopes, curOp, phase, handles, gitRepo, indexDir>>

\* an exception leaves the open scopes innermost first
UnwindScope(c) ==
  /\ Running(c)
  /\ Head1(c).i = "unwind"
  /\ scope_exit(c, TRUE)
  /\ PhaseAfterExit(c)
  /\ UNCHANGED <<prog, curOp, handles, gitRepo, indexDir>>

\* the operation returns to its caller, or its exception reaches the caller
EndOp(c) ==
  /\ Running(c)
  /\ \/ Head1(c).i = "return"
     \/ Head1(c).i = "unwind" /\ scopes[c] = <<>>
  /\ lastEvent' = [ctx |-> c, op |-> "end",
                   res |-> IF Head1(c).i = "return" THEN "returned" ELSE "raised",
                   svcop |-> curOp[c],
                   mode |-> State(c).lock_mode,
                   count |-> State(c).lock_count,
                   held |-> ofd[c]]
  /\ prog' = [prog EXCEPT ![c] = <<>>]
  /\ curOp' = [curOp EXCEPT ![c] = "none"]
  /\ phase' = [phase EXCEPT ![c] = "idle"]
  /\ UNCHANGED <<tls, ofd, pc, scopes, handles, gitRepo, indexDir>>

SvcInit ==
  /\ LockInit0
  /\ SvcInit0
  /\ DataInit0
  /\ gitRepo \in BOOLEAN
  /\ indexDir \in {"ok", "mismatch"}

\* the step-by-step view leaves the notes themselves out
SvcOnly == UNCHANGED <<files, docs, blLinks, blLoaded, blFile, journal, failed, result>>

SvcNext ==
  \E c \in SvcCtx :
    \/ \E op \in Ops : StartOp(c, op) /\ SvcOnly
    \/ Branch(c) /\ SvcOnly
    \/ EnterScope(c) /\ SvcOnly
    \/ FlockReturns(c) /\ SvcOnly
    \/ FlockRaises(c) /\ SvcOnly
    \/ ExitScope(c) /\ SvcOnly
    \/ Access(c) /\ SvcOnly
    \/ AccessRaises(c) /\ SvcOnly
    \/ UnwindScope(c) /\ SvcOnly
    \/ EndOp(c) /\ SvcOnly

SpecSvc == SvcInit /\ [][SvcNext]_vars

\* the lock mode each operation declares: read for pure reads, write for mutations
OpMode(op) ==
  IF op \in {"read", "list", "search", "get_backlinks", "history"}
  THEN MODE_READ ELSE MODE_WRITE

\* C8: every access an operation makes to storage, an index or the journal
\* happens with the lock held in the operation's mode and with no release
\* since the operation's first access, and when the operation returns or
\* raises its thread holds nothing: mode none, depth 0, no OS lock.
C8_LockedThroughout ==
  /\ lastEvent.op = "access"
       => /\ lastEvent.held # "UN"
          /\ lastEvent.mode = OpMode(lastEvent.svcop)
          /\ ~lastEvent.afterRelease
  /\ lastEvent.op = "end"
       => /\ lastEvent.mode = MODE_NONE
          /\ lastEvent.count = 0
          /\ lastEvent.held = "UN"

\* C9: every change to the note files, the search index, the backlink file
\* or the journal repository is made under the exclusive lock.
C9_MutationsUnderWriteLock ==
  (lastEvent.op = "access" /\ (lastEvent.kind = "mutate" \/ lastEvent.lazyMutates))
    => lastEvent.mode = MODE_WRITE /\ lastEvent.held = "EX"

\* ------------------------------------------- NoteService: the data effect
\* inputs of the explored calls
PathA == <<"a">>
PathB == <<"b">>
InPaths == {PathA, PathB, <<"", "a">>, <<"c", "", "d">>}
InTitles == {"T1"}
InContents ==
  { <<>>,
    << <<Link(PathB, "Label"), Link(PathB, "")>>, <<>>, <<Link(PathA, "")>> >> }

None == [some |-> FALSE]
Some(x) == [some |-> TRUE, v |-> x]
Opt(S) == {None} \cup {Some(x) : x \in S}

NoteRec(title, content, tags) == [title |-> title, content |-> content, tags |-> tags]

\* BacklinksIndex._ensure_loaded: the index the next call works on
Loaded ==
  IF blLoaded THEN blLinks
  ELSE IF blFile.exists THEN blFile.links
  ELSE blLinks

\* the tree of the newest commit
HeadTree == IF journal = <<>> THEN EmptyMap ELSE journal[Len(journal)].tree

\* the file "<path>.md" as git resolves the pathspec
GitFile(p) == SelectSeq(p, LAMBDA seg : seg # "")

\* `git add <path>.md`: fails for a path outside the repository (a leading
\* slash) and for a pathspec that matches no file, present or tracked
GitAddOk(fs, p) ==
  /\ p # <<>>
  /\ Head(p) # ""
  /\ GitFile(p) \in DOMAIN fs \cup DOMAIN HeadTree

\* a commit that replaces the newest entry (git commit --amend)
Commit_amend(fs, p, op) ==
  LET k == GitFile(p)
      tree == IF k \in DOMAIN fs THEN With(HeadTree, k, fs[k]) ELSE Without(HeadTree, k)
      entry == [op |-> op, path |-> p, tree |-> tree]
  IN  IF journal = <<>> THEN <<entry>>
      ELSE [journal EXCEPT ![Len(journal)] = entry]

\* GitRepository.commit_change: stage that one file, commit (--allow-empty)
Commit(fs, p, op) ==
  LET k == GitFile(p)
      tree == IF k \in DOMAIN fs THEN With(HeadTree, k, fs[k]) ELSE Without(HeadTree, k)
  IN  Append(journal, [op |-> op, path |-> p, tree |-> tree])

\* the call raises before its first side effect
Raise(op, err) ==
  /\ result' = [op |-> op, status |-> "raised", error |-> err]
  /\ UNCHANGED <<files, docs, blLinks, blLoaded, blFile, journal, failed>>

\* a read of the backlink index that also writes backlinks.json
Return_saves(res, touched) ==
  /\ result' = res
  /\ blLinks' = IF touched THEN Loaded ELSE blLinks
  /\ blLoaded' = (blLoaded \/ touched)
  /\ blFile' = IF touched THEN [exists |-> TRUE, links |-> Loaded] ELSE blFile
  /\ UNCHANGED <<files, docs, journal, failed>>

\* the call only reads; touched says whether it looked at the backlink index
Return(res, touched) ==
  /\ result' = res
  /\ blLinks' = IF touched THEN Loaded ELSE blLinks
  /\ blLoaded' = (blLoaded \/ touched)
  /\ UNCHANGED <<files, docs, blFile, journal, failed>>

\* the writes of a mutating call in source order, the commit last; bl says
\* whether the backlink index was written (each write saves the file)
Finish(fs, ds, bl, p, op, res) ==
  /\ files' = fs
  /\ docs' = ds
  /\ blLinks' = IF bl.touched THEN bl.links ELSE blLinks
  /\ blLoaded' = (blLoaded \/ bl.touched)
  /\ blFile' = IF bl.written THEN [exists |-> TRUE, links |-> bl.links] ELSE blFile
  /\ IF GitAddOk(fs, p)
     THEN /\ journal' = Commit(fs, p, op)
          /\ result' = res
          /\ failed' = failed
     ELSE /\ journal' = journal
          /\ result' = [op |-> res.op, status |-> "raised", error |-> "CalledProcessError"]
          /\ failed' = failed + 1

\* a call that raises err part-way: the writes made so far stay and no
\* commit is made
Abort(fs, ds, bl, op, err) ==
  /\ files' = fs
  /\ docs' = ds
  /\ blLinks' = IF bl.touched THEN bl.links ELSE blLinks
  /\ blLoaded' = (blLoaded \/ bl.touched)
  /\ blFile' = IF bl.written THEN [exists |-> TRUE, links |-> bl.links] ELSE blFile
  /\ journal' = journal
  /\ result' = [op |-> op, status |-> "raised", error |-> err]
  /\ failed' = failed + 1

Written(ls) == [touched |-> TRUE, written |-> TRUE, links |-> ls]
Untouched == [touched |-> FALSE, written |-> FALSE, links |-> EmptyMap]

\* NoteService.create_note
create_note(path, title, content, tags) ==
  /\ Len(journal) + failed < MaxCalls
  /\ IF ~path_valid(path) \/ ~title_valid(title)
     THEN Raise("create", "ValidationError")
     ELSE LET v == validate_path(path)
              note == NoteRec(title, content, tags)
              fs == With(files, path_to_file(v), note)
              ds == With(docs, v, note)
              ls == update_note_links(Loaded, path, extract_links(content))
          IN  Finish(fs, ds, Written(ls), path, "create",
                     [op |-> "create", status |-> "ok", path |-> v, note |-> note])

\* NoteService.read_note
read_note(path) ==
  IF ~sanitize_ok(path) THEN Raise("read", "ValueError")
  ELSE IF /\ path_to_file(path) \in DOMAIN files
          /\ ~from_markdown_ok(path, files[path_to_file(path)])
  THEN Raise("read", "ValidationError")
  ELSE Return([op |-> "read", status |-> "ok", path |-> path,
               found |-> path_to_file(path) \in DOMAIN files], FALSE)

RECURSIVE RewriteSources(_, _, _, _)
\* update_note lines 220-233: rewrite the notes that link to the old path
RewriteSources(acc, todo, old_path, new_path) ==
  IF todo = {} \/ acc.raised THEN acc
  ELSE LET bl == CHOOSE x \in todo : TRUE
           src == bl.source_path
           k == path_to_file(src)
           unloadable == k \in DOMAIN acc.fs /\ ~from_markdown_ok(src, acc.fs[k])
           new_content ==
             IF k \in DOMAIN acc.fs
             THEN replace_link_target(acc.fs[k].content, old_path, new_path)
             ELSE <<>>
           changed == k \in DOMAIN acc.fs /\ new_content # acc.fs[k].content
           next ==
             IF unloadable THEN [acc EXCEPT !.raised = TRUE]
             ELSE IF changed
             THEN [fs |-> With(acc.fs, k, [acc.fs[k] EXCEPT !.content = new_content]),
                   ls |-> update_note_links(acc.ls, src, extract_links(new_content)),
                   updated |-> acc.updated \cup {src},
                   raised |-> FALSE]
             ELSE acc
       IN  RewriteSources(next, todo \ {bl}, old_path, new_path)

\* a move that never finds its destination taken
Occupied_never(fs, new_path) == FALSE

\* update_note line 212: storage.load(new_path) is not None
Occupied(fs, new_path) == path_to_file(new_path) \in DOMAIN fs

\* update_note line 218: are the linking notes rewritten
ShouldRewrite(update_backlinks, incoming) == update_backlinks /\ incoming # {}

\* update_note lines 210-253: the note moves to new_path
update_moving(op, path, note, new_path, update_backlinks) ==
  IF ~sanitize_ok(new_path) THEN Raise(op, "ValueError")
  ELSE IF /\ path_to_file(new_path) \in DOMAIN files
          /\ ~from_markdown_ok(new_path, files[path_to_file(new_path)])
  THEN Raise(op, "ValidationError")
  ELSE IF Occupied(files, new_path) THEN Raise(op, "ValueError")
  ELSE LET incoming == get_backlinks(Loaded, path)
           start == [fs |-> files, ls |-> Loaded, updated |-> {}, raised |-> FALSE]
           rw == IF ShouldRewrite(update_backlinks, incoming)
                 THEN RewriteSources(start, incoming, path, new_path)
                 ELSE start
           warning == IF update_backlinks THEN {} ELSE incoming
           fs1 == Without(rw.fs, path_to_file(path))
           ds1 == Without(docs, path)
           ls1 == remove_note(rw.ls, path)
           fs2 == With(fs1, path_to_file(new_path), note)
           ds2 == With(ds1, new_path, note)
           ls2 == update_note_links(ls1, new_path, extract_links(note.content))
       IN  IF rw.raised
           THEN Abort(rw.fs, docs,
                      [touched |-> TRUE, written |-> rw.updated # {}, links |-> rw.ls],
                      op, "ValidationError")
           ELSE Finish(fs2, ds2, Written(ls2), new_path, "move",
                       [op |-> op, status |-> "ok", path |-> new_path, note |-> note,
                        backlinks_updated |-> rw.updated,
                        backlinks_warning |-> warning])

\* update_note lines 254-265: the note is saved in place
update_in_place(op, path, note, has_content) ==
  LET v == validate_path(path)
      fs == With(files, path_to_file(v), note)
      ds == With(docs, v, note)
      bl == IF has_content
            THEN Written(update_note_links(Loaded, path, extract_links(note.content)))
            ELSE Untouched
  IN  Finish(fs, ds, bl, path, "update",
             [op |-> op, status |-> "ok", path |-> v, note |-> note,
              backlinks_updated |-> {}, backlinks_warning |-> {}])

\* NoteService.update_note lines 184-271, called as operation op; title,
\* content, tags and new_path are optional
update_as(op, path, title, content, tags, new_path, update_backlinks) ==
  IF ~sanitize_ok(path) THEN Raise(op, "ValueError")
  ELSE IF path_to_file(path) \notin DOMAIN files
  THEN Return([op |-> op, status |-> "notfound"], FALSE)
  ELSE IF ~from_markdown_ok(path, files[path_to_file(path)])
  THEN Raise(op, "ValidationError")
  ELSE LET old == files[path_to_file(path)]
           note == NoteRec(IF title.some THEN title.v ELSE old.title,
                           IF content.some THEN content.v ELSE old.content,
                           IF tags.some THEN tags.v ELSE old.tags)
       IN  IF new_path.some /\ new_path.v # path
           THEN update_moving(op, path, note, new_path.v, update_backlinks)
           ELSE update_in_place(op, path, note, content.some)

\* NoteService.update_note
update_note(path, title, content, tags, new_path, update_backlinks) ==
  /\ Len(journal) + failed < MaxCalls
  /\ update_as("update", path, title, content, tags, new_path, update_backlinks)

\* NoteService.delete_note
delete_note(path) ==
  /\ Len(journal) + failed < MaxCalls
  /\ IF ~sanitize_ok(path) THEN Raise("delete", "ValueError")
     ELSE IF path_to_file(path) \in DOMAIN files
     THEN Finish(Without(files, path_to_file(path)), Without(docs, path),
                 Written(remove_note(Loaded, path)), path, "delete",
                 [op |-> "delete", status |-> "ok", deleted |-> TRUE,
                  backlinks_warning |-> get_backlinks(Loaded, path)])
     ELSE Return([op |-> "delete", status |-> "ok", deleted |-> FALSE,
                  backlinks_warning |-> {}], TRUE)

\* a version names a commit by its position in the journal; 0 is an
\* identifier that names no commit
Versions == 0..MaxCalls

\* `git show <version>:<path>.md` reads the tree entry with literally that
\* name: a repeated or leading slash names nothing
GitShowOk(p) == p # <<>> /\ \A i \in 1..Len(p) : p[i] \notin {"", ".."}

\* GitRepository.get_file_at_version, parsed by Note.from_markdown
get_file_at_version(path, version) ==
  IF /\ version \in 1..Len(journal)
     /\ GitShowOk(path)
     /\ path \in DOMAIN journal[version].tree
  THEN Some(journal[version].tree[path])
  ELSE None

\* GitRepository.get_file_history: the commits that changed the file, newest
\* first.  Every commit_change follows a save or a delete of the file it
\* stages, and a save stamps updated_at, so a commit changes that file.
get_file_history(path) ==
  IF path = <<>> \/ Head(path) = "" THEN <<>>
  ELSE SelectSeq([i \in 1..Len(journal) |-> Len(journal) + 1 - i],
                 LAMBDA n : GitFile(journal[n].path) = GitFile(path))

\* NoteService.restore_note_version
restore_note_version(path, version) ==
  /\ Len(journal) + failed < MaxCalls
  /\ LET old == get_file_at_version(path, version)
     IN  IF ~old.some THEN Return([op |-> "restore", status |-> "absent"], FALSE)
         ELSE IF ~from_markdown_ok(path, old.v)
         THEN Raise("restore", "ValidationError")
         ELSE update_as("restore", path, Some(old.v.title), Some(old.v.content),
                        Some(old.v.tags), None, TRUE)

\* NoteService.get_backlinks
get_backlinks_op(path) ==
  Return([op |-> "get_backlinks", status |-> "ok", path |-> path,
          backlinks |-> get_backlinks(Loaded, path)], TRUE)

\* a rebuild that also commits to the journal
rebuild_indexes_commits ==
  /\ files' = files
  /\ docs' = search_rebuild(docs, files)
  /\ blLinks' = rebuild_links(Loaded, files)
  /\ blLoaded' = TRUE
  /\ blFile' = [exists |-> TRUE, links |-> rebuild_links(Loaded, files)]
  /\ result' = [op |-> "rebuild", status |-> "ok", notes_processed |-> Cardinality(DOMAIN files)]
  /\ Len(journal) + failed < MaxCalls
  /\ journal' = Append(journal, [op |-> "rebuild", path |-> <<>>, tree |-> HeadTree])
  /\ UNCHANGED failed

\* NoteService.rebuild_indexes: both indexes are rebuilt from the stored
\* notes, which are all loaded first
rebuild_indexes ==
  IF \E k \in DOMAIN files : ~from_markdown_ok(k, files[k])
  THEN Raise("rebuild", "ValidationError")
  ELSE /\ files' = files
       /\ docs' = search_rebuild(docs, files)
       /\ blLinks' = rebuild_links(Loaded, files)
       /\ blLoaded' = TRUE
       /\ blFile' = [exists |-> TRUE, links |-> rebuild_links(Loaded, files)]
       /\ result' = [op |-> "rebuild", status |-> "ok", notes_processed |-> Cardinality(DOMAIN files)]
       /\ UNCHANGED <<journal, failed>>

\* a NoteService call changes the store, not the lock (it runs to its end
\* under the lock it took)
DataOnly == UNCHANGED <<tls, ofd, pc, scopes, lastEvent,
                        prog, curOp, phase, handles, gitRepo, indexDir>>

Init == LockInit

Next ==
  \/ \E p \in InPaths, t \in InTitles, c \in InContents :
       create_note(p, t, c, <<>>) /\ DataOnly
  \/ \E p \in InPaths, c \in Opt(InContents) :
       update_note(p, None, c, None, None, TRUE) /\ DataOnly
  \/ \E p \in InPaths, n \in InPaths, ub \in BOOLEAN :
       update_note(p, None, None, None, Some(n), ub) /\ DataOnly
  \/ \E p \in InPaths : delete_note(p) /\ DataOnly
  \/ \E p \in InPaths, v \in Versions : restore_note_version(p, v) /\ DataOnly
  \/ rebuild_indexes /\ DataOnly

Spec == Init /\ [][Next]_vars

\* the calls that create, change, move and delete notes, and the rebuild
MutateNext ==
  \/ \E p \in InPaths, t \in InTitles, c \in InContents :
       create_note(p, t, c, <<>>) /\ DataOnly
  \/ \E p \in InPaths, c \in Opt(InContents) :
       update_note(p, None, c, None, None, TRUE) /\ DataOnly
  \/ \E p \in InPaths, n \in InPaths, ub \in BOOLEAN :
       update_note(p, None, None, None, Some(n), ub) /\ DataOnly
  \/ \E p \in InPaths : delete_note(p) /\ DataOnly
  \/ rebuild_indexes /\ DataOnly

SpecMutate == Init /\ [][MutateNext]_vars

\* the mutating calls interleaved with the read-only ones, on a note, a
\* second spelling of its path and one other note
QueryPaths == {PathA, <<"", "a">>, PathB}

QueryNext ==
  \/ \E p \in QueryPaths, t \in InTitles, c \in InContents :
       create_note(p, t, c, <<>>) /\ DataOnly
  \/ \E p \in QueryPaths, t \in Opt({"T2"}), c \in Opt(InContents) :
       update_note(p, t, c, None, None, TRUE) /\ DataOnly
  \/ \E p \in QueryPaths, n \in QueryPaths, ub \in BOOLEAN :
       update_note(p, None, None, None, Some(n), ub) /\ DataOnly
  \/ \E p \in QueryPaths : delete_note(p) /\ DataOnly
  \/ \E p \in QueryPaths, v \in Versions : restore_note_version(p, v) /\ DataOnly
  \/ rebuild_indexes /\ DataOnly
  \/ \E p \in QueryPaths : read_note(p) /\ DataOnly
  \/ \E p \in QueryPaths : get_backlinks_op(p) /\ DataOnly

SpecQuery == Init /\ [][QueryNext]_vars

\* C10: after successful create, update, move and delete operations the
\* backlink index equals what rebuild() produces from the stored notes.
C10_IndexEqualsRebuild == failed = 0 => Loaded = rebuild(files)

\* ------------------------------------------------ claims on the data effect
\* the lines of content that hold a wiki link to target, ascending
LinesOf(content, target) ==
  SelectSeq([n \in 1..Len(content) |-> n],
            LAMBDA n : \E j \in 1..Len(content[n]) : content[n][j].t = target)

\* what NoteService.get_backlinks(target) returns in the state with index ls
Backlinks(ls, target) == get_backlinks(ls, target)
EntriesOfOthers(ls, target, source) ==
  {e \in Backlinks(ls, target) : e.source_path # source}

\* a call of create_note(p, ...) / delete_note(p) that returned
Created(p, c) ==
  /\ result'.op = "create" /\ result'.status = "ok"
  /\ \E t \in InTitles : create_note(p, t, c, <<>>)
Deleted(p) ==
  /\ result'.op = "delete" /\ result'.status = "ok" /\ result'.deleted
  /\ delete_note(p)

Linkers(fs, p) == {k \in DOMAIN fs : LinesOf(fs[k].content, p) # <<>>}

\* content c2 is content c1 with every link to p retargeted to n and nothing
\* else changed (the display text of a retargeted link included)
Retargeted(c1, c2, p, n) ==
  /\ Len(c2) = Len(c1)
  /\ \A i \in 1..Len(c1) :
       /\ Len(c2[i]) = Len(c1[i])
       /\ \A j \in 1..Len(c1[i]) :
            IF c1[i][j].t = p
            THEN c2[i][j].t = n /\ c2[i][j].d = c1[i][j].d
            ELSE c2[i][j] = c1[i][j]

\* a call update_note(p, new_path = n, update_backlinks = ub) that returned
Moved(p, n, ub) ==
  /\ result'.op = "update" /\ result'.status = "ok"
  /\ p # n
  /\ update_note(p, None, None, None, Some(n), ub)

\* the file a note stored in file k is found in after the note of p moved to n
FileAfterMove(k, p, n) == IF k = path_to_file(p) THEN path_to_file(n) ELSE k

\* C12: after update(p, new_path = n, update_backlinks = true) on a live note
\* with inbound links, every note that linked to p links to n instead with
\* the display text kept, get_backlinks(n) lists each of them,
\* get_backlinks(p) lists none, backlinks_updated is exactly the set of those
\* notes and backlinks_warning is empty.
C12_MovePropagation ==
  [][ \A p \in InPaths, n \in InPaths :
        (Moved(p, n, TRUE) /\ Linkers(files, p) # {}) =>
          /\ \A k \in Linkers(files, p) :
               /\ FileAfterMove(k, p, n) \in DOMAIN files'
               /\ Retargeted(files[k].content,
                             files'[FileAfterMove(k, p, n)].content, p, n)
               /\ \E e \in Backlinks(Loaded', n) :
                    path_to_file(e.source_path) = FileAfterMove(k, p, n)
          /\ Backlinks(Loaded', p) = {}
          /\ {path_to_file(src) : src \in result'.backlinks_updated}
               = Linkers(files, p)
          /\ result'.backlinks_warning = {}
    ]_vars

\* C13: update(p, new_path = n, update_backlinks = false) on a live note with
\* inbound links leaves the stored content of every linking note unchanged,
\* get_backlinks(p) still lists each of them, backlinks_updated is empty and
\* backlinks_warning names exactly the notes that linked to p before the move.
C13_MoveWithoutPropagation ==
  [][ \A p \in InPaths, n \in InPaths :
        (Moved(p, n, FALSE) /\ Linkers(files, p) # {}) =>
          /\ \A k \in Linkers(files, p) :
               /\ FileAfterMove(k, p, n) \in DOMAIN files'
               /\ files'[FileAfterMove(k, p, n)].content = files[k].content
               /\ \E e \in Backlinks(Loaded', p) :
                    path_to_file(e.source_path) = FileAfterMove(k, p, n)
          /\ result'.backlinks_updated = {}
          /\ {path_to_file(e.source_path) : e \in result'.backlinks_warning}
               = Linkers(files, p)
    ]_vars

\* a call update_note(p, new_path = n) on a live note, whatever it returned
MoveCalled(p, n) ==
  /\ result'.op = "update"
  /\ p # n
  /\ path_to_file(p) \in DOMAIN files
  /\ \E ub \in BOOLEAN : update_note(p, None, None, None, Some(n), ub)

\* C14: update with a new_path at which a note already exists raises the
\* conflict error and changes nothing: the notes at path and at new_path, the
\* linking notes, the search index, the backlink index and the journal stay
\* as they were.
C14_MoveConflictChangesNothing ==
  [][ \A p \in InPaths, n \in InPaths :
        (path_to_file(n) \in DOMAIN files /\ MoveCalled(p, n)) =>
          /\ result'.status = "raised" /\ result'.error = "ValueError"
          /\ files' = files
          /\ docs' = docs
          /\ Loaded' = Loaded /\ blFile' = blFile
          /\ journal' = journal
    ]_vars

\* a move from a to b was rejected while both notes were stored
C14_Witness ==
  /\ result.op = "update" /\ result.status = "raised"
  /\ result.error = "ValueError"
  /\ PathA \in DOMAIN files /\ PathB \in DOMAIN files
  /\ Len(journal) = 2 /\ failed = 0

\* ------------------------------------------------------- folders and notes
\* a folder, a note in it and the folder's index note
OverlapPaths == {<<"c">>, <<"c", "d">>, <<"c", "index">>}

OverlapNext ==
  \/ \E p \in OverlapPaths, t \in InTitles :
       create_note(p, t, <<>>, <<>>) /\ DataOnly
  \/ \E p \in OverlapPaths, t \in Opt({"T2"}) :
       update_note(p, t, None, None, None, TRUE) /\ DataOnly
  \/ \E p \in OverlapPaths, n \in OverlapPaths :
       update_note(p, None, None, None, Some(n), TRUE) /\ DataOnly
  \/ \E p \in OverlapPaths : delete_note(p) /\ DataOnly

SpecOverlap == Init /\ [][OverlapNext]_vars

\* path p is a folder of the note at path q
IsFolderOf(p, q) == Len(q) > Len(p) /\ SubSeq(q, 1, Len(p)) = p

\* C15: no note whose last segment is not "index" is stored at a path P while
\* another note is stored below P/; a save that would place one there fails
\* with the conflict error and writes nothing.
C15_NoFolderNoteOverlap ==
  \A p \in DOMAIN files, q \in DOMAIN files :
    IsFolderOf(p, q) => p[Len(p)] = "index"

\* a call create_note(p, ..., content c), whatever it returned
CreateCalled(p, c) ==
  /\ result'.op = "create"
  /\ \E t \in InTitles : create_note(p, t, c, <<>>)

\* C16: create on a path where a note is already live raises the conflict
\* error and leaves the live note (title, content, tags) as it was.
C16_CreateOnLiveConflicts ==
  [][ \A p \in InPaths, c \in InContents :
        (CreateCalled(p, c) /\ path_to_file(p) \in DOMAIN files) =>
          /\ result'.status = "raised"
          /\ path_to_file(p) \in DOMAIN files'
          /\ files'[path_to_file(p)] = files[path_to_file(p)]
    ]_vars

\* a call update_note(p, ...) / delete_note(p), whatever it returned
UpdateCalled(p) ==
  /\ result'.op = "update"
  /\ \/ \E c \in Opt(InContents) :
          update_note(p, None, c, None, None, TRUE)
     \/ \E n \in InPaths, ub \in BOOLEAN :
          update_note(p, None, None, None, Some(n), ub)
DeleteCalled(p) ==
  /\ result'.op = "delete"
  /\ delete_note(p)

\* storage, the search index, the backlink index and the journal are as before
StoreUnchanged ==
  /\ files' = files
  /\ docs' = docs
  /\ Loaded' = Loaded /\ blFile' = blFile
  /\ journal' = journal

\* C17: update or delete of a path with no live note returns the not-found
\* outcome (update: no result, delete: deleted = false) without raising and
\* leaves storage, both indexes and the journal unchanged.
C17_NotFoundChangesNothing ==
  [][ \A p \in InPaths :
        /\ (path_to_file(p) \notin DOMAIN files /\ UpdateCalled(p)) =>
             (result'.status = "notfound" /\ StoreUnchanged)
        /\ (path_to_file(p) \notin DOMAIN files /\ DeleteCalled(p)) =>
             (result'.status = "ok" /\ ~result'.deleted /\ StoreUnchanged)
    ]_vars

\* delete of a path that is not stored, in a store that holds another note
C17_Witness ==
  /\ result.op = "delete" /\ result.status = "ok" /\ ~result.deleted
  /\ PathA \in DOMAIN files /\ PathB \notin DOMAIN files
  /\ Len(journal) = 1

\* the step keeps every journal entry and adds one at the end
JournalAppended ==
  /\ Len(journal') = Len(journal) + 1
  /\ SubSeq(journal', 1, Len(journal)) = journal

\* the call of the step was a mutating one and it succeeded
MutationSucceeded ==
  /\ result'.status = "ok"
  /\ \/ result'.op \in {"create", "update", "restore"}
     \/ result'.op = "delete" /\ result'.deleted

\* C18: the journal is append-only and grows by exactly one entry per
\* successful create, in-place update, move, delete of a live note and
\* restore; reads, rebuild_indexes and not-found or rejected mutations append
\* none, and no step removes or alters an entry.
C18_JournalAppendOnly ==
  [][ IF MutationSucceeded THEN JournalAppended ELSE journal' = journal ]_vars

\* three mutations were committed one after the other and a read followed
C18_Witness ==
  /\ Len(journal) = 3
  /\ journal[1].op = "create" /\ journal[2].op = "update"
  /\ journal[3].op = "delete"
  /\ result.op = "read"

\* the commits of journal j that changed file k, newest first
HistoryIn(j, k) ==
  SelectSeq([i \in 1..Len(j) |-> Len(j) + 1 - i],
            LAMBDA n : GitFile(j[n].path) = k)

\* v names a commit and the note's file is part of that commit
VersionExists(p, v) ==
  /\ v \in 1..Len(journal)
  /\ GitFile(p) \in DOMAIN journal[v].tree

\* a call restore_note_version(p, v), whatever it returned
RestoreCalled(p, v) ==
  /\ result'.op = "restore"
  /\ restore_note_version(p, v)

\* C19: restore_version(p, v) on a live note sets its title, content and tags
\* to those recorded at version v, puts exactly one new entry at the head of
\* the path's history and leaves the earlier entries and their content as
\* they were; with a version that does not exist it returns absent and
\* changes nothing.
C19_RestoreAppends ==
  [][ \A p \in InPaths, v \in Versions :
        (RestoreCalled(p, v) /\ path_to_file(p) \in DOMAIN files) =>
          IF VersionExists(p, v)
          THEN /\ result'.status = "ok"
               /\ files'[path_to_file(p)] = journal[v].tree[GitFile(p)]
               /\ JournalAppended
               /\ HistoryIn(journal', GitFile(p)) =
                    <<Len(journal) + 1>> \o HistoryIn(journal, GitFile(p))
               /\ journal'[Len(journal')].tree[GitFile(p)] =
                    journal[v].tree[GitFile(p)]
          ELSE /\ result'.status \in {"absent", "notfound"}
               /\ StoreUnchanged
    ]_vars

indexes_lost(restart) ==
  /\ docs' = EmptyMap
  /\ blFile' = [exists |-> FALSE, links |-> EmptyMap]
  /\ blLoaded' = (blLoaded /\ ~restart)
  /\ blLinks' = IF restart THEN EmptyMap ELSE blLinks
  /\ UNCHANGED <<files, journal, failed, result>>

RebuildNext ==
  \/ \E p \in QueryPaths, t \in InTitles, c \in InContents :
       create_note(p, t, c, <<>>) /\ DataOnly
  \/ \E p \in QueryPaths, c \in InContents :
       update_note(p, None, Some(c), None, None, TRUE) /\ DataOnly
  \/ \E p \in QueryPaths, n \in QueryPaths :
       update_note(p, None, None, None, Some(n), TRUE) /\ DataOnly
  \/ \E p \in QueryPaths : delete_note(p) /\ DataOnly
  \/ \E restart \in BOOLEAN : indexes_lost(restart) /\ DataOnly
  \/ rebuild_indexes /\ DataOnly

SpecRebuild == Init /\ [][RebuildNext]_vars

\* the entries a target has when the index holds exactly the links of notes fs
FoundLinks(fs, target) ==
  {[source_path |-> k, line_numbers |-> LinesOf(fs[k].content, target)] :
     k \in Linkers(fs, target)}

\* C21: from any state of the two indexes (emptied, stale, or with entries of
\* notes that are gone) rebuild_indexes leaves the search index with exactly
\* one document per stored note, the backlink index with exactly the links
\* found in the stored notes, and reports the number of stored notes.
C21_RebuildFromAnyIndexState ==
  [][ (result'.op = "rebuild" /\ rebuild_indexes) =>
        /\ DOMAIN docs' = DOMAIN files
        /\ \A k \in DOMAIN files : docs'[k] = files[k]
        /\ \A t \in DOMAIN Loaded' \cup QueryPaths :
             Backlinks(Loaded', t) = FoundLinks(files, t)
        /\ \A t \in DOMAIN Loaded' : Backlinks(Loaded', t) # {}
        /\ blFile' = [exists |-> TRUE, links |-> Loaded']
        /\ result'.notes_processed = Cardinality(DOMAIN files)
    ]_vars

\* a rebuild ran after delete_note("/a") had left the entries of the deleted
\* note a in both indexes; the note b is stored and a's entries are gone
C21_Witness ==
  /\ result.op = "rebuild" /\ result.notes_processed = 1
  /\ Len(journal) = 2 /\ failed = 1
  /\ journal[1].op = "create" /\ journal[1].path = PathA
  /\ LinesOf(journal[1].tree[PathA].content, PathB) # <<>>
  /\ journal[2].op = "create" /\ journal[2].path = PathB
  /\ DOMAIN files = {PathB}
  /\ DOMAIN docs = {PathB}
  /\ Backlinks(Loaded, PathB) = {}

\* ------------------------------------------------ inputs the model rejects
\* calls with titles and paths the Note validators reject, next to valid ones
ValidPaths == {PathA, PathB, <<BadSegment>>}
NewTitles == {"T2", "", LongTitle}
ValidContents == { <<>>, << <<Link(PathA, "")>> >> }

ValidNext ==
  \/ \E p \in ValidPaths, t \in {"T1", ""}, c \in ValidContents :
       create_note(p, t, c, <<>>) /\ DataOnly
  \/ \E p \in ValidPaths, t \in NewTitles :
       update_note(p, Some(t), None, None, None, TRUE) /\ DataOnly
  \/ \E p \in ValidPaths, n \in ValidPaths :
       update_note(p, None, None, None, Some(n), TRUE) /\ DataOnly
  \/ \E p \in ValidPaths : read_note(p) /\ DataOnly
  \/ rebuild_indexes /\ DataOnly

SpecValid == Init /\ [][ValidNext]_vars

\* storage.load(p) returns a note
Loadable(fs, p) ==
  path_to_file(p) \in DOMAIN fs /\ from_markdown_ok(p, fs[path_to_file(p)])

\* C22: update of a stored note with an empty or over-long title, or with a
\* new_path the path format rejects, raises before any side effect: the note
\* stays loadable at its path and storage, both indexes and the journal are
\* as before.
C22_InvalidInputChangesNothing ==
  [][ \A p \in ValidPaths :
        (result'.op = "update" /\ Loadable(files, p)) =>
          /\ \A t \in NewTitles :
               (~title_valid(t) /\ update_note(p, Some(t), None, None, None, TRUE)) =>
                 /\ result'.status = "raised"
                 /\ StoreUnchanged
                 /\ Loadable(files', p)
          /\ \A n \in ValidPaths :
               (~path_valid(n) /\ update_note(p, None, None, None, Some(n), TRUE)) =>
                 /\ result'.status = "raised"
                 /\ StoreUnchanged
                 /\ Loadable(files', p)
    ]_vars

\* ------------------------------------------ a step of a mutation raises
\* one caller at a time runs the mutating operations step by step
MutatingOps == {"create", "update", "delete", "restore"}
Caller == 1

FaultNext ==
  \/ \E op \in MutatingOps : StartOp(Caller, op) /\ SvcOnly
  \/ Branch(Caller) /\ SvcOnly
  \/ EnterScope(Caller) /\ SvcOnly
  \/ FlockReturns(Caller) /\ SvcOnly
  \/ FlockRaises(Caller) /\ SvcOnly
  \/ ExitScope(Caller) /\ SvcOnly
  \/ Access(Caller) /\ SvcOnly
  \/ AccessRaises(Caller) /\ SvcOnly
  \/ UnwindScope(Caller) /\ SvcOnly
  \/ EndOp(Caller) /\ SvcOnly

SpecFault == SvcInit /\ [][FaultNext]_vars

\* the next step of c is a write to the search index, the backlink index or
\* the journal; in every mutating operation these follow the storage write
AfterStorageWrite(c) ==
  /\ Running(c)
  /\ curOp[c] \in MutatingOps
  /\ Head1(c) \in {Im, Bm, Gm}

\* c's operation is leaving through an exception raised after its first access
Failing(c) == prog[c] = <<UNWIND>> /\ phase[c] # "pre"

\* C23: when the search-index write, the backlink-index write or the commit
\* of a mutation raises, the remaining steps are dropped (none is performed,
\* retried or undone by a further access), the exception reaches the caller,
\* and the caller's thread is left without the lock.
C23_StepFailurePropagates ==
  [][ /\ (AfterStorageWrite(Caller) /\ lastEvent'.op = "raise") =>
           /\ prog'[Caller] = <<UNWIND>>
           /\ UNCHANGED <<handles, gitRepo, indexDir>>
      /\ Failing(Caller) =>
           /\ lastEvent'.op \in {"exit", "end"}
           /\ lastEvent'.op = "end" =>
                /\ lastEvent'.res = "raised"
                /\ lastEvent'.mode = MODE_NONE
                /\ lastEvent'.count = 0
                /\ lastEvent'.held = "UN"
    ]_vars

\* a create raised after its storage write and its write scope was left: the
\* exception is about to reach the caller and the thread holds nothing
C23_Witness ==
  /\ curOp[Caller] = "create"
  /\ Failing(Caller) /\ phase[Caller] = "gap"
  /\ scopes[Caller] = <<>>
  /\ ofd[Caller] = "UN"
  /\ State(Caller).lock_count = 0 /\ State(Caller).lock_mode = MODE_NONE

\* C24: after a move with update_backlinks = true every linking note that
\* was rewritten is stored with the rewritten content, and its search-index
\* document carries that rewritten content.
C24_RewrittenSourcesReindexed ==
  [][ (result'.op = "update" /\ result'.status = "ok") =>
        \A src \in result'.backlinks_updated :
          path_to_file(src) \in DOMAIN files' =>
            /\ src \in DOMAIN docs'
            /\ docs'[src].content = files'[path_to_file(src)].content
    ]_vars

\* ----------------------------------------- concurrent creates by processes
\* one context of each process, each with a NoteService of its own on the
\* same directories, creates the note of its own path
Creators == {c \in Ctx : \A d \in Ctx : ProcOf(d) = ProcOf(c) => c <= d}
NotePath(c) == <<"note" \o ToString(c)>>
NoteOf(c) == NoteRec("Note note" \o ToString(c), << <<>> >>, <<>>)

\* index_note (writer(), lines 110-124) and commit_change (git add / git
\* commit) take the lock of the library they call for as long as the call
\* lasts: the call is entered, then its write is made
Ib == I("begin", "index", "")
Gb == I("begin", "git", "")

\* create_note lines 118-135 for a note the validators accept
create_steps == <<W, Sm, Ib, Im, Bm, Gb, Gm, X, RET>>

StartCreate(c) ==
  /\ prog[c] = <<>>
  /\ pc[c] = "run"
  /\ path_valid(NotePath(c)) /\ title_valid(NoteOf(c).title)
  /\ path_to_file(NotePath(c)) \notin DOMAIN files
  /\ prog' = [prog EXCEPT ![c] = create_steps]
  /\ curOp' = [curOp EXCEPT ![c] = "create"]
  /\ phase' = [phase EXCEPT ![c] = "pre"]
  /\ lastEvent' = Event(c, "call", "create")
  /\ UNCHANGED <<tls, ofd, pc, scopes, handles, gitRepo, indexDir>>

\* another creator is inside a call to resource r
Busy(c, r) ==
  \E d \in Creators \ {c} :
    prog[d] # <<>> /\ Head(prog[d]) = I("acc", r, "mutate")

\* the call into the search index or the journal is entered; it raises when
\* another process is inside a call to the same one (tantivy's writer lock,
\* git's index.lock)
BeginCall(c) ==
  /\ Running(c)
  /\ Head1(c).i = "begin"
  /\ IF Busy(c, Head1(c).r) THEN Unwind(c) ELSE Advance(c)
  /\ lastEvent' = Event(c, IF Busy(c, Head1(c).r) THEN "raise" ELSE "begin", curOp[c])
  /\ UNCHANGED <<tls, ofd, pc, scopes, curOp, phase, handles, gitRepo, indexDir>>

\* backlinks.json as a NoteService started in a new process loads it
FileLinks == IF blFile.exists THEN blFile.links ELSE EmptyMap

\* one step of create_note with its effect on the store; the backlink index
\* object of the creating process is built and loaded inside this call
CreateStep(c) ==
  /\ Access(c)
  /\ LET r == Head1(c).r
         path == NotePath(c)
         note == NoteOf(c)
     IN  /\ files' = IF r = "storage"
                     THEN With(files, path_to_file(validate_path(path)), note)
                     ELSE files
         /\ docs' = IF r = "index" THEN With(docs, validate_path(path), note) ELSE docs
         /\ blFile' = IF r = "backlinks"
                      THEN [exists |-> TRUE,
                            links |-> update_note_links(FileLinks, path,
                                                        extract_links(note.content))]
                      ELSE blFile
         /\ journal' = IF r = "git" /\ GitAddOk(files, path)
                       THEN Commit(files, path, "create")
                       ELSE journal
  /\ UNCHANGED <<blLinks, blLoaded, failed, result>>

ConcNext ==
  \E c \in Creators :
    \/ StartCreate(c) /\ SvcOnly
    \/ EnterScope(c) /\ SvcOnly
    \/ FlockReturns(c) /\ SvcOnly
    \/ BeginCall(c) /\ SvcOnly
    \/ CreateStep(c)
    \/ ExitScope(c) /\ SvcOnly
    \/ EndOp(c) /\ SvcOnly

SpecConc == SvcInit /\ [][ConcNext]_vars

\* every creator's call has returned
AllReturned ==
  /\ \A c \in Creators : prog[c] = <<>>
  /\ \A c \in Creators : \E i \in 1..Len(journal) : journal[i].path = NotePath(c)

\* C25: when the processes create notes at distinct paths concurrently, every
\* create succeeds (no call of it into the search index or git raises and it
\* returns with its file stored and committed), and afterwards each note is
\* readable with the title and the content it was created with.
C25_ConcurrentCreatesSucceed ==
  /\ [][\A c \in Creators : lastEvent' # Event(c, "raise", "create")]_vars
  /\ [][ (lastEvent'.op = "end" /\ lastEvent'.svcop = "create") =>
           /\ lastEvent'.res = "returned"
           /\ path_to_file(NotePath(lastEvent'.ctx)) \in DOMAIN files'
           /\ \E i \in 1..Len(journal') : journal'[i].path = NotePath(lastEvent'.ctx)
       ]_vars
  /\ [](\A c \in Creators :
          (prog[c] = <<>> /\ path_to_file(NotePath(c)) \in DOMAIN files) =>
            /\ Loadable(files, NotePath(c))
            /\ files[path_to_file(NotePath(c))].title = NoteOf(c).title
            /\ files[path_to_file(NotePath(c))].content = NoteOf(c).content)

\* all creates have returned and every note is stored
C25_Witness ==
  /\ AllReturned
  /\ Cardinality(Creators) >= 2
  /\ \A c \in Creators : Loadable(files, NotePath(c))
  /\ Len(journal) = Cardinality(Creators)

\* ------------------------------------------------- date math in queries
\* A query is a string; Head, Tail, SubSeq, Len and \o work on its characters.
Digits == {"0", "1", "2", "3", "4", "5", "6", "7", "8", "9"}
Units == {"d", "w", "M", "y"}

DigitVal(ch) ==
  CASE ch = "0" -> 0 [] ch = "1" -> 1 [] ch = "2" -> 2 [] ch = "3" -> 3
    [] ch = "4" -> 4 [] ch = "5" -> 5 [] ch = "6" -> 6 [] ch = "7" -> 7
    [] ch = "8" -> 8 [] ch = "9" -> 9

CharAt(s, i) == SubSeq(s, i, i)
From(s, i) == SubSeq(s, i, Len(s))

RECURSIVE ParseInt(_, _)
\* int() of a string of digits
ParseInt(s, acc) ==
  IF s = "" THEN acc ELSE ParseInt(Tail(s), acc * 10 + DigitVal(Head(s)))

RECURSIVE ZeroPad(_, _)
\* the %Y / %m / %d / %H / %M / %S fields of strftime: decimal, zero-padded
ZeroPad(text, width) ==
  IF Len(text) >= width THEN text ELSE ZeroPad("0" \o text, width)
Field(n, width) == ZeroPad(ToString(n), width)

\* the proleptic Gregorian calendar of datetime
IsLeap(y) == y % 4 = 0 /\ (y % 100 # 0 \/ y % 400 = 0)
DaysInMonth(y, m) ==
  IF m = 2 THEN (IF IsLeap(y) THEN 29 ELSE 28)
  ELSE IF m \in {4, 6, 9, 11} THEN 30 ELSE 31
DaysBeforeMonthTable == <<0, 31, 59, 90, 120, 151, 181, 212, 243, 273, 304, 334>>
DaysBeforeMonth(y, m) ==
  DaysBeforeMonthTable[m] + (IF m > 2 /\ IsLeap(y) THEN 1 ELSE 0)
DaysBeforeYear(y) ==
  (y - 1) * 365 + (y - 1) \div 4 - (y - 1) \div 100 + (y - 1) \div 400

\* datetime.toordinal: the day number of a date, 0001-01-01 being day 1
ymd2ord(y, m, d) == DaysBeforeYear(y) + DaysBeforeMonth(y, m) + d
MaxOrdinal == 3652059

\* datetime's _ord2ymd: the date of a day number
ord2ymd(ordinal) ==
  LET n0 == ordinal - 1
      n400 == n0 \div 146097
      r400 == n0 % 146097
      n100 == r400 \div 36524
      r100 == r400 % 36524
      n4 == r100 \div 1461
      r4 == r100 % 1461
      n1 == r4 \div 365
      n == r4 % 365
      year == n400 * 400 + 1 + n100 * 100 + n4 * 4 + n1
  IN  IF n1 = 4 \/ n100 = 4 THEN [y |-> year - 1, mo |-> 12, d |-> 31]
      ELSE LET leap == n1 = 3 /\ (n4 # 24 \/ n100 = 3)
               extra(m) == IF m > 2 /\ leap THEN 1 ELSE 0
               month0 == (n + 50) \div 32
               before0 == DaysBeforeMonthTable[month0] + extra(month0)
               month == IF before0 > n THEN month0 - 1 ELSE month0
               before == DaysBeforeMonthTable[month] + extra(month)
           IN  [y |-> year, mo |-> month, d |-> n - before + 1]

\* a datetime; the clock of the run is fixed
DateTime(y, mo, d, h, mi, sec) ==
  [y |-> y, mo |-> mo, d |-> d, h |-> h, mi |-> mi, s |-> sec]
Now == DateTime(2024, 6, 15, 12, 0, 0)

\* base_date + timedelta(days): None when the result leaves datetime's range
AddDays(dt, days) ==
  LET ordinal == ymd2ord(dt.y, dt.mo, dt.d) + days
  IN  IF ordinal < 1 \/ ordinal > MaxOrdinal THEN None
      ELSE LET r == ord2ymd(ordinal)
           IN  Some(DateTime(r.y, r.mo, r.d, dt.h, dt.mi, dt.s))

\* strftime("%Y-%m-%dT%H:%M:%SZ")
strftime(dt) ==
  Field(dt.y, 4) \o "-" \o Field(dt.mo, 2) \o "-" \o Field(dt.d, 2) \o "T" \o
  Field(dt.h, 2) \o ":" \o Field(dt.mi, 2) \o ":" \o Field(dt.s, 2) \o "Z"

\* datetime.strptime(text, "%Y-%m-%d") on four, two and two digits: None when
\* they name no day of the calendar
strptime(text) ==
  LET y == ParseInt(SubSeq(text, 1, 4), 0)
      m == ParseInt(SubSeq(text, 6, 7), 0)
      d == ParseInt(SubSeq(text, 9, 10), 0)
  IN  IF y >= 1 /\ m \in 1..12 /\ d >= 1 /\ d <= DaysInMonth(y, m)
      THEN Some(DateTime(y, m, d, 0, 0, 0))
      ELSE None

RECURSIVE DigitRun(_)
\* \d+ : the length of the run of digits the text starts with
DigitRun(s) == IF s # "" /\ Head(s) \in Digits THEN 1 + DigitRun(Tail(s)) ELSE 0

\* (?:[+-]\d+[dwMy])? : the length of the arithmetic the text starts with,
\* 0 when the optional group matches nothing
ArithLen(s) ==
  IF s # "" /\ Head(s) \in {"+", "-"}
  THEN LET k == DigitRun(Tail(s))
       IN  IF k >= 1 /\ Len(s) >= k + 2 /\ CharAt(s, k + 2) \in Units
           THEN k + 2 ELSE 0
  ELSE 0

\* \d{4}-\d{2}-\d{2}
IsDateText(s) ==
  /\ Len(s) >= 10
  /\ \A i \in {1, 2, 3, 4, 6, 7, 9, 10} : CharAt(s, i) \in Digits
  /\ CharAt(s, 5) = "-" /\ CharAt(s, 8) = "-"

\* the first alternative of the pattern: now(?:[+-]\d+[dwMy])?
NowLen(s) ==
  IF Len(s) >= 3 /\ SubSeq(s, 1, 3) = "now" THEN 3 + ArithLen(From(s, 4)) ELSE 0

\* the second alternative: \d{4}-\d{2}-\d{2}(?![T\d])(?:[+-]\d+[dwMy])?
DateLen(s) ==
  IF IsDateText(s) /\ ~(Len(s) >= 11 /\ CharAt(s, 11) \in Digits \cup {"T"})
  THEN 10 + ArithLen(From(s, 11)) ELSE 0

\* the length of the match of the pattern at the start of the text, 0 for none
MatchLen(s) == IF NowLen(s) > 0 THEN NowLen(s) ELSE DateLen(s)

\* a month of 31 days
parse_duration_month31(text) ==
  LET k == DigitRun(text)
      amount == ParseInt(SubSeq(text, 1, k), 0)
      unit == CharAt(text, k + 1)
  IN  IF unit = "d" THEN amount
      ELSE IF unit = "w" THEN amount * 7
      ELSE IF unit = "M" THEN amount * 31
      ELSE amount * 365

\* _parse_duration: the days of "<amount><unit>"
parse_duration(text) ==
  LET k == DigitRun(text)
      amount == ParseInt(SubSeq(text, 1, k), 0)
      unit == CharAt(text, k + 1)
  IN  IF unit = "d" THEN amount
      ELSE IF unit = "w" THEN amount * 7
      ELSE IF unit = "M" THEN amount * 30
      ELSE amount * 365

\* replace_date_expr, lines 47-71, on one match: the text put in its place,
\* or the exception strptime or the date arithmetic raises
replace_date_expr(expr) ==
  LET isNow == Len(expr) >= 3 /\ SubSeq(expr, 1, 3) = "now"
      base == IF isNow THEN Some(Now) ELSE strptime(SubSeq(expr, 1, 10))
      remainder == IF isNow THEN From(expr, 4) ELSE From(expr, 11)
  IN  IF ~base.some THEN [raised |-> TRUE, error |-> "ValueError"]
      ELSE IF remainder # "" /\ ArithLen(remainder) > 0
      THEN LET days == parse_duration(Tail(remainder))
               shifted == AddDays(base.v, IF Head(remainder) = "+" THEN days ELSE 0 - days)
           IN  IF shifted.some THEN [raised |-> FALSE, text |-> strftime(shifted.v)]
               ELSE [raised |-> TRUE, error |-> "OverflowError"]
      ELSE [raised |-> FALSE, text |-> strftime(base.v)]

RECURSIVE re_sub(_)
\* re.sub(pattern, replace_date_expr, query): the matches are taken from left
\* to right, each search starting where the last match ended
re_sub(s) ==
  IF s = "" THEN [raised |-> FALSE, text |-> ""]
  ELSE LET n == MatchLen(s)
           first == IF n > 0 THEN replace_date_expr(SubSeq(s, 1, n))
                    ELSE [raised |-> FALSE, text |-> Head(s)]
           rest == re_sub(IF n > 0 THEN From(s, n + 1) ELSE Tail(s))
       IN  IF first.raised THEN first
           ELSE IF rest.raised THEN rest
           ELSE [raised |-> FALSE, text |-> first.text \o rest.text]

\* _preprocess_date_math
preprocess_date_math(query) == re_sub(query)

\* SearchIndex.search line 157: the query is preprocessed before it is parsed
date_math(query) ==
  /\ result' = [op |-> "date_math", query |-> query,
                out |-> preprocess_date_math(query)]
  /\ UNCHANGED <<files, docs, blLinks, blLoaded, blFile, journal, failed>>

\* the date tokens: a base, alone or with a sign, an amount and a unit
MaxShift == 3
Bases ==
  { [text |-> "now", at |-> Now],
    [text |-> "2024-01-15", at |-> DateTime(2024, 1, 15, 0, 0, 0)],
    [text |-> "2024-02-29", at |-> DateTime(2024, 2, 29, 0, 0, 0)],
    [text |-> "2023-12-31", at |-> DateTime(2023, 12, 31, 0, 0, 0)],
    [text |-> "2100-03-01", at |-> DateTime(2100, 3, 1, 0, 0, 0)] }
Signs == {"+", "-"}
TokenText(b, sign, n, unit) == b.text \o sign \o ToString(n) \o unit

\* queries of tests/test_search.py and queries without a date token
TestQueries ==
  { "created_at:[now TO *]",
    "created_at:[now-7d TO now]",
    "updated_at:[now TO now+2w]",
    "created_at:[2024-01-15 TO 2024-02-15]",
    "created_at:[2024-01-01 TO 2024-01-01+1M]",
    "python AND created_at:[now-1M TO now]",
    "now-07d" }
PlainQueries ==
  { "python tutorial",
    "title:python AND tags:work",
    "title:\"exact phrase\" OR NOT draft",
    "created_at:[2024-01-01T00:00:00Z TO *]",
    "2024-06-08T12:00:00Z",
    "python knowledge",
    "snow",
    "" }

DateNext ==
  \/ \E b \in Bases : date_math(b.text) /\ DataOnly
  \/ \E b \in Bases, sign \in Signs, n \in 0..MaxShift, unit \in Units :
       date_math(TokenText(b, sign, n, unit)) /\ DataOnly
  \/ \E q \in TestQueries \cup PlainQueries : date_math(q) /\ DataOnly

SpecDate == Init /\ [][DateNext]_vars

\* the calendar, counted month by month
RefMonthLen(y, m) ==
  IF m \in {4, 6, 9, 11} THEN 30
  ELSE IF m # 2 THEN 31
  ELSE IF y % 4 = 0 /\ (y % 100 # 0 \/ y % 400 = 0) THEN 29 ELSE 28

RECURSIVE RefForward(_, _, _, _)
RefForward(y, m, d, k) ==
  IF d + k <= RefMonthLen(y, m) THEN <<y, m, d + k>>
  ELSE IF m = 12 THEN RefForward(y + 1, 1, 1, k - (RefMonthLen(y, m) - d + 1))
  ELSE RefForward(y, m + 1, 1, k - (RefMonthLen(y, m) - d + 1))

RECURSIVE RefBackward(_, _, _, _)
RefBackward(y, m, d, k) ==
  IF k < d THEN <<y, m, d - k>>
  ELSE IF m = 1 THEN RefBackward(y - 1, 12, RefMonthLen(y - 1, 12), k - d)
  ELSE RefBackward(y, m - 1, RefMonthLen(y, m - 1), k - d)

RefShift(at, sign, days) ==
  LET to == IF sign = "+" THEN RefForward(at.y, at.mo, at.d, days)
            ELSE RefBackward(at.y, at.mo, at.d, days)
  IN  [at EXCEPT !.y = to[1], !.mo = to[2], !.d = to[3]]

TwoDigits(n) == IF n < 10 THEN "0" \o ToString(n) ELSE ToString(n)
RefStamp(at) ==
  ToString(at.y) \o "-" \o TwoDigits(at.mo) \o "-" \o TwoDigits(at.d)
    \o "T" \o TwoDigits(at.h) \o ":" \o TwoDigits(at.mi) \o ":"
    \o TwoDigits(at.s) \o "Z"

UnitDays(unit) ==
  CASE unit = "d" -> 1 [] unit = "w" -> 7 [] unit = "M" -> 30 [] unit = "y" -> 365

Rewritten(text) == [raised |-> FALSE, text |-> text]

\* C26: preprocessing rewrites now, now+/-N<unit>, YYYY-MM-DD and
\* YYYY-MM-DD+/-N<unit> to the base instant (the clock, or midnight of the day)
\* shifted by N, 7N, 30N or 365N days and printed as YYYY-MM-DDTHH:MM:SSZ; with
\* the clock at 2024-06-15T12:00:00, now-7d gives 2024-06-08T12:00:00Z, and the
\* tokens of a larger query are rewritten in place.
C26_DateMathShifts ==
  result.op = "date_math" =>
    /\ \A b \in Bases :
         result.query = b.text => result.out = Rewritten(RefStamp(b.at))
    /\ \A b \in Bases, sign \in Signs, n \in 0..MaxShift, unit \in Units :
         result.query = TokenText(b, sign, n, unit) =>
           result.out = Rewritten(RefStamp(RefShift(b.at, sign, n * UnitDays(unit))))
    /\ result.query = "now-7d" => result.out = Rewritten("2024-06-08T12:00:00Z")
    /\ result.query = "created_at:[now-7d TO now]" =>
         result.out = Rewritten("created_at:[2024-06-08T12:00:00Z TO 2024-06-15T12:00:00Z]")
    /\ result.query = "updated_at:[now TO now+2w]" =>
         result.out = Rewritten("updated_at:[2024-06-15T12:00:00Z TO 2024-06-29T12:00:00Z]")
    /\ result.query = "created_at:[2024-01-01 TO 2024-01-01+1M]" =>
         result.out = Rewritten("created_at:[2024-01-01T00:00:00Z TO 2024-01-31T00:00:00Z]")
    /\ result.query = "python AND created_at:[now-1M TO now]" =>
         result.out = Rewritten("python AND created_at:[2024-05-16T12:00:00Z TO 2024-06-15T12:00:00Z]")

\* a month shift across the end of February of a leap year has been rewritten
C26_Witness ==
  /\ result.op = "date_math"
  /\ result.query = "2024-02-29+1M"
  /\ result.out = Rewritten("2024-03-30T00:00:00Z")

\* C27: preprocessing changes nothing but date tokens: a query without a date
\* token (field selectors, boolean operators, phrases, ordinary words, a full
\* ISO timestamp) is returned character for character.
C27_OnlyDateTokensChange ==
  (result.op = "date_math" /\ result.query \in PlainQueries) =>
    result.out = Rewritten(result.query)

\* --------------------------------------------------- paths at the storage
\* The storage calls on their own. The folders the paths walk through are
\* present, as after earlier saves and deletes (save creates the parents of a
\* file and delete leaves them), so the operating system finds a file exactly
\* at the location its path resolves to.
MaxSegs == 3
StoreSegments == {"", "..", "a"}
BlankPaths == { <<"  ">>, <<" ", "">>, <<"  a  ">>, <<" ", "a">>, <<"", " a">>,
                <<"a", ".", "a">>, <<".", "a">>, <<"a", ".">> }
\* paths that leave the root and name its folder again
ReentryPaths == { <<"..", "notes", "a">>, <<"..", "notes">>, <<"..", "srv", "a">>,
                  <<"a", "..", "..", "notes", "a">>,
                  <<"..", "..", "srv", "notes", "a">> }
\* the paths of TestPathSanitization
TestPaths == { <<"", "etc", "passwd">>, <<"..", "outside">>,
               <<"foo", "..", "..", "outside">>,
               <<"foo", "..", "..", "..", "etc", "passwd">>,
               <<"">>, <<"   ">>, <<"", "">>, <<"  my-note  ">> }
StorePaths ==
  UNION { [1..n -> StoreSegments] : n \in 1..MaxSegs }
    \cup BlankPaths \cup ReentryPaths \cup TestPaths

\* _path_to_file: the file of a sanitized path, as folders below the root and
\* the stem of the file name
stored_at(path) ==
  LET clean == lstrip(strip(path))
      folder == resolved_parent(clean)
  IN  SubSeq(folder, Len(BaseDir) + 1, Len(folder)) \o <<clean[Len(clean)]>>

StoreResult(op, path, status) == [op |-> op, path |-> path, status |-> status]
StoreKeeps == UNCHANGED <<docs, blLinks, blLoaded, blFile, journal, failed>>

\* FilesystemStorage.save
storage_save(path, note) ==
  /\ IF ~sanitize_ok(path)
     THEN result' = StoreResult("storage.save", path, "ValueError") /\ files' = files
     ELSE /\ files' = With(files, stored_at(path), note)
          /\ result' = StoreResult("storage.save", path, "ok")
  /\ StoreKeeps

\* FilesystemStorage.load
storage_load(path) ==
  /\ result' =
       IF ~sanitize_ok(path) THEN StoreResult("storage.load", path, "ValueError")
       ELSE IF stored_at(path) \notin DOMAIN files
       THEN StoreResult("storage.load", path, "None")
       ELSE IF ~from_markdown_ok(path, files[stored_at(path)])
       THEN StoreResult("storage.load", path, "ValidationError")
       ELSE StoreResult("storage.load", path, "ok")
  /\ files' = files
  /\ StoreKeeps

\* FilesystemStorage.delete
storage_delete(path) ==
  /\ IF ~sanitize_ok(path)
     THEN result' = StoreResult("storage.delete", path, "ValueError") /\ files' = files
     ELSE IF stored_at(path) \in DOMAIN files
     THEN /\ files' = Without(files, stored_at(path))
          /\ result' = StoreResult("storage.delete", path, "True")
     ELSE result' = StoreResult("storage.delete", path, "False") /\ files' = files
  /\ StoreKeeps

\* the histories keep one note in the store at a time
StoreNext ==
  \/ \E p \in StorePaths :
       /\ sanitize_ok(p) => DOMAIN files \subseteq {stored_at(p)}
       /\ storage_save(p, NoteRec("T1", << <<>> >>, <<>>)) /\ DataOnly
  \/ \E p \in StorePaths : storage_load(p) /\ DataOnly
  \/ \E p \in StorePaths : storage_delete(p) /\ DataOnly

SpecStore == Init /\ [][StoreNext]_vars

\* a path of blanks and slashes only
RECURSIVE Blank(_)
Blank(t) == t = "" \/ (Head(t) = " " /\ Blank(Tail(t)))
EmptyPath(p) ==
  /\ Blank(p[1]) /\ Blank(p[Len(p)])
  /\ \A i \in 2..(Len(p) - 1) : p[i] = ""

\* where the folders of a path lead, counted from the storage root: up is the
\* number of folders of BaseDir left behind, down the number of folders entered
\* below the point reached
RECURSIVE Walk(_, _, _)
Walk(todo, up, down) ==
  IF todo = <<>> THEN [up |-> up, down |-> down]
  ELSE IF Head(todo) \in {"", "."} THEN Walk(Tail(todo), up, down)
  ELSE IF Head(todo) = ".."
  THEN IF down > 0 THEN Walk(Tail(todo), up, down - 1)
       ELSE IF up < Len(BaseDir) THEN Walk(Tail(todo), up + 1, 0)
       ELSE Walk(Tail(todo), up, 0)
  ELSE IF down = 0 /\ up > 0 /\ Head(todo) = BaseDir[Len(BaseDir) - up + 1]
  THEN Walk(Tail(todo), up - 1, 0)
  ELSE Walk(Tail(todo), up, down + 1)

\* the first segment that is not empty, and the folders from it on
RECURSIVE Folders(_)
Folders(p) ==
  IF p = <<>> THEN p
  ELSE IF Head(p) = "" \/ (Blank(Head(p)) /\ Len(p) > 1) THEN Folders(Tail(p))
  ELSE SubSeq(p, 1, Len(p) - 1)
Escapes(p) == Walk(Folders(p), 0, 0).up > 0

list_all == DOMAIN files

\* str.strip("/") of list_by_prefix, after str.strip()
RECURSIVE rstrip_slash(_)
rstrip_slash(p) ==
  IF p # <<>> /\ p[Len(p)] = "" THEN rstrip_slash(SubSeq(p, 1, Len(p) - 1)) ELSE p
strip_slash(p) == rstrip_slash(lstrip(p))

\* p.startswith(prefix + "/")
startswith(p, prefix) ==
  Len(p) > Len(prefix) /\ SubSeq(p, 1, Len(prefix)) = prefix

\* FilesystemStorage.list_by_prefix
list_by_prefix(prefix) ==
  LET pre == strip_slash(strip(prefix))
  IN  IF pre = <<>>
      THEN [notes |-> {p \in list_all : Len(p) = 1},
            subfolders |-> {<<p[1]>> : p \in {q \in list_all : Len(q) > 1}}]
      ELSE [notes |-> {p \in list_all : startswith(p, pre) /\ Len(p) = Len(pre) + 1}
                        \cup ({pre} \cap list_all),
            subfolders |-> {SubSeq(p, 1, Len(pre) + 1) :
                              p \in {q \in list_all :
                                       startswith(q, pre) /\ Len(q) > Len(pre) + 1}}]

\* NoteService.list_notes_in_folder
list_notes_in_folder(folder) ==
  /\ result' = [op |-> "list_by_prefix", folder |-> folder,
                out |-> list_by_prefix(folder)]
  /\ UNCHANGED <<files, docs, blLinks, blLoaded, blFile, journal, failed>>

\* the paths and folders of tests/test_storage.py
ListPaths == { <<"index">>, <<"other">>, <<"projects">>,
               <<"projects", "index">>, <<"projects", "proj1">>,
               <<"projects", "sub", "proj3">>, <<"projects", "api", "note2">> }
ListFolders == { <<"">>, <<"projects">>, <<"", "projects", "">>,
                 <<"projects", "sub">>, <<"nonexistent">>, <<"index">> }

ListNext ==
  \/ \E p \in ListPaths : storage_save(p, NoteRec("T1", << <<>> >>, <<>>)) /\ DataOnly
  \/ \E p \in ListPaths : storage_delete(p) /\ DataOnly
  \/ \E f \in ListFolders : list_notes_in_folder(f) /\ DataOnly

SpecList == Init /\ [][ListNext]_vars

\* the last segment of a path
Name(p) == p[Len(p)]

\* C29: list_by_prefix(folder) returns as notes exactly the stored paths one
\* segment below folder that are not named index, together with a note stored
\* at folder itself unless it is named index; as subfolders the immediate
\* child folders, each once; and has_index, true exactly when folder/index
\* (index for the top level) is stored.
C29_ListByPrefix ==
  result.op = "list_by_prefix" =>
    LET folder == SelectSeq(result.folder, LAMBDA seg : seg # "")
        below == {p \in DOMAIN files :
                    Len(p) > Len(folder) /\ SubSeq(p, 1, Len(folder)) = folder}
        out == result.out
    IN  /\ out.notes =
             {p \in below : Len(p) = Len(folder) + 1 /\ Name(p) # "index"}
               \cup {p \in DOMAIN files : p = folder /\ Name(p) # "index"}
        /\ out.subfolders =
             {SubSeq(p, 1, Len(folder) + 1) :
                p \in {q \in below : Len(q) > Len(folder) + 1}}
        /\ "has_index" \in DOMAIN out
        /\ out.has_index = (Append(folder, "index") \in DOMAIN files)

\* ------------------------------------------- the backlink index on its own
MaxLinks == 2
IndexSources == {PathA, PathB}
IndexTargets == {PathA, <<"c">>}
IndexLines == {1, 2}
IndexLinks == {WikiLink(t, None, n) : t \in IndexTargets, n \in IndexLines}
LinkLists == UNION { [1..n -> IndexLinks] : n \in 0..MaxLinks }

\* is the source recorded under some target of the index
Recorded(links, source_path) ==
  \E t \in DOMAIN links : source_path \in DOMAIN links[t]

\* BacklinksIndex.update_note_links called on the index: load, replace, save
index_update(source_path, ls) ==
  /\ blLinks' = update_note_links(Loaded, source_path, ls)
  /\ blLoaded' = TRUE
  /\ blFile' = [exists |-> TRUE, links |-> update_note_links(Loaded, source_path, ls)]
  /\ result' = [op |-> "update_note_links", source_path |-> source_path,
                links |-> ls, replaced |-> Recorded(Loaded, source_path)]
  /\ UNCHANGED <<files, docs, journal, failed>>

LinksNext ==
  \E s \in IndexSources, ls \in LinkLists : index_update(s, ls) /\ DataOnly

SpecLinks == Init /\ [][LinksNext]_vars

\* the line numbers recorded for a source under a target, if any
Entry(links, t, src) ==
  IF t \in DOMAIN links /\ src \in DOMAIN links[t] THEN <<links[t][src]>> ELSE <<>>

\* C30: update_note_links(s, L) replaces the outgoing links of s: afterwards
\* s is recorded under a target exactly when L has a link to it (with the line
\* numbers of those links, so an empty L removes s everywhere), the entries
\* of every other source are as before, and the same call again changes
\* nothing.
C30_UpdateLinksFullReplace ==
  [][result'.op = "update_note_links" =>
       LET s == result'.source_path
           ls == result'.links
       IN  /\ \A t \in DOMAIN Loaded \cup DOMAIN blLinks' \cup IndexTargets :
                /\ (Entry(blLinks', t, s) # <<>>) <=>
                     (\E i \in 1..Len(ls) : ls[i].target_path = t)
                /\ Entry(blLinks', t, s) # <<>> =>
                     {Entry(blLinks', t, s)[1][i] : i \in 1..Len(Entry(blLinks', t, s)[1])}
                       = {ls[i].line_number : i \in {j \in 1..Len(ls) : ls[j].target_path = t}}
                /\ \A src \in IndexSources \ {s} :
                     Entry(blLinks', t, src) = Entry(Loaded, t, src)
           /\ update_note_links(blLinks', s, ls) = blLinks'
           /\ blFile'.links = blLinks']_vars

\* a source that was recorded has been updated with no links while another
\* source stays recorded, and a source has been moved from one target to
\* another
C30_Witness ==
  /\ result.op = "update_note_links" /\ result.replaced
  /\ \/ /\ result.links = <<>>
        /\ ~Recorded(blLinks, result.source_path)
        /\ blLinks # EmptyMap
     \/ /\ result.links = <<WikiLink(<<"c">>, None, 1)>>
        /\ Entry(blLinks, PathA, result.source_path) = <<>>
        /\ \E src \in IndexSources : Entry(blLinks, PathA, src) # <<>>

\* ------------------------------------------ every call of the backlink index
\* a content with two links to one target on one line
IndexContents ==
  InContents \cup { << <<Link(<<"c">>, ""), Link(<<"c">>, "Text")>>,
                       <<Link(<<"c">>, "")>> >> }

\* the index is loaded, changed and saved
IndexSaved(links, op) ==
  /\ blLinks' = links
  /\ blLoaded' = TRUE
  /\ blFile' = [exists |-> TRUE, links |-> links]
  /\ result' = [op |-> op]
  /\ UNCHANGED <<files, docs, journal, failed>>

\* how many of the links point to the target on the line
Given(ls, t, n) ==
  Cardinality({i \in 1..Len(ls) : ls[i].target_path = t /\ ls[i].line_number = n})

\* BacklinksIndex.update_note_links, noting what the caller passed: the
\* (target, line) pairs given twice and the targets given against line order
index_replace(source_path, ls) ==
  /\ blLinks' = update_note_links(Loaded, source_path, ls)
  /\ blLoaded' = TRUE
  /\ blFile' = [exists |-> TRUE, links |-> update_note_links(Loaded, source_path, ls)]
  /\ result' = [op |-> "update_note_links", source_path |-> source_path,
                twice |-> {<<t, n>> \in IndexTargets \X IndexLines : Given(ls, t, n) > 1},
                unordered |-> {ls[i].target_path : i \in
                    {i \in 1..Len(ls) : \E j \in 1..(i - 1) :
                        /\ ls[j].target_path = ls[i].target_path
                        /\ ls[j].line_number > ls[i].line_number}}]
  /\ UNCHANGED <<files, docs, journal, failed>>

index_remove(path) == IndexSaved(remove_note(Loaded, path), "remove_note")
index_rename(old_path, new_path) ==
  IndexSaved(rename_target(Loaded, old_path, new_path), "rename_target")
index_clear == IndexSaved(clear(Loaded), "clear")
\* BacklinksIndex.rebuild(notes)
index_rebuild(notes) == IndexSaved(rebuild_links(Loaded, notes), "rebuild")

IndexNext ==
  \/ \E s \in IndexSources, ls \in LinkLists : index_replace(s, ls) /\ DataOnly
  \/ \E s \in IndexSources : index_remove(s) /\ DataOnly
  \/ \E old \in IndexTargets, new \in IndexTargets \cup {PathB} :
       index_rename(old, new) /\ DataOnly
  \/ index_clear /\ DataOnly
  \/ \E cs \in [IndexSources -> IndexContents] :
       index_rebuild([s \in IndexSources |-> NoteRec("T1", cs[s], <<>>)]) /\ DataOnly

SpecIndex == Init /\ [][IndexNext]_vars

\* is the sequence of numbers strictly ascending
Ascending(lines) == \A i \in 1..(Len(lines) - 1) : lines[i] < lines[i + 1]

C31_ReportedInOrder ==
  /\ result.op = "update_note_links"
  /\ result.unordered = {PathA}
  /\ blLinks[PathA][result.source_path] = <<2, 1>>
  /\ \E bl \in get_backlinks(blLinks, PathA) :
       bl.source_path = result.source_path /\ bl.line_numbers = <<1, 2>>

\* --------------------------------------------------- readers and a waiting writer
\* C32: shared mode is excluded by a pending exclusive request as well as by
\* a held one: once a writer waits in flock, no read acquisition that arrives
\* afterwards is granted before that writer acquired and released.  Checked
\* where the reader's grant directly follows its arrival: the reader's
\* read_lock call is the latest lock event, so the writer, blocked in flock
\* by a held lock, called write_lock before it.
C32_PendingWriterExcludesReaders ==
  [][\A c \in Ctx : \A w \in Ctx \ {c} :
       (/\ lastEvent = Event(c, "read_lock", "flock")
        /\ pc[w] = "flock_ex"
        /\ ~FlockCompatible(w, WriteFlockOp))
         => ~(lastEvent' = Event(c, "flock", "granted") /\ pc'[w] = "flock_ex")]_vars

\* ------------------------------------------------------- updates in place
\* a call update_note(p, title, content, new_path) that does not move the note
InPlaceCalled(p, t, c, np) ==
  /\ result'.op = "update"
  /\ update_note(p, t, c, None, np, TRUE)

\* the effect C33 states, for the paths P
InPlaceFrame(P) ==
  \A p \in P, t \in Opt({"T2"}), c \in Opt(InContents), same \in BOOLEAN :
    LET np == IF same THEN Some(p) ELSE None IN
    (path_to_file(p) \in DOMAIN files /\ InPlaceCalled(p, t, c, np)) =>
      LET k == path_to_file(p)
          old == files[k]
          note == NoteRec(IF t.some THEN t.v ELSE old.title,
                          IF c.some THEN c.v ELSE old.content, old.tags)
      IN  /\ result'.status = "ok"
          /\ files' = With(files, k, note)
          /\ k \in DOMAIN docs' /\ docs'[k] = note
          /\ JournalAppended
          /\ journal'[Len(journal')].op = "update"
          /\ journal'[Len(journal')].tree = With(HeadTree, k, note)
          /\ IF c.some
             THEN \A b \in DOMAIN Loaded' \cup QueryPaths :
                    /\ {e.line_numbers : e \in {x \in Backlinks(Loaded', b) :
                                                  path_to_file(x.source_path) = k}}
                         = IF LinesOf(c.v, b) = <<>> THEN {} ELSE {LinesOf(c.v, b)}
                    /\ {e \in Backlinks(Loaded', b) : path_to_file(e.source_path) # k}
                         = {e \in Backlinks(Loaded, b) : path_to_file(e.source_path) # k}
             ELSE Loaded' = Loaded /\ blFile' = blFile

\* C33: an update without a path change (new_path absent or equal to path)
\* on a live note re-saves the note, re-indexes it in search and appends one
\* update journal entry; the note's backlink entries are recomputed only when
\* new content is supplied, otherwise the backlink index is unchanged; no
\* other note's stored content changes.
C33_InPlaceUpdateFrame == [][InPlaceFrame(QueryPaths)]_vars

\* ------------------------------------------------------------ deleting a note
\* the effect C34 states, for the paths P
DeleteEffect(P) ==
  \A p \in P :
    (path_to_file(p) \in DOMAIN files /\ DeleteCalled(p)) =>
      LET k == path_to_file(p) IN
        /\ result'.status = "ok" /\ result'.deleted
        /\ result'.backlinks_warning = Backlinks(Loaded, k)
        /\ files' = Without(files, k)
        /\ k \notin DOMAIN docs'
        /\ \A b \in DOMAIN Loaded \cup DOMAIN Loaded' :
             Backlinks(Loaded', b)
               = {e \in Backlinks(Loaded, b) : path_to_file(e.source_path) # k}

\* C34: delete(path) on a live note returns as its broken-link warning exactly
\* the inbound backlinks to path that existed immediately before the deletion,
\* and removes the note from storage, from the search index and, as a source,
\* from the backlink index; every other note's stored content is unchanged.
C34_DeleteWarnsAndRemoves == [][DeleteEffect(QueryPaths)]_vars

\* ------------------------------------------- link rewriting, text and all
\* Content as the string it is.  WIKI_LINK_PATTERN is
\* \[\[([^\]|]+)(?:\|([^\]]+))?\]\] ; both groups are greedy and what may
\* follow a group is outside its character class, so a match attempt at an
\* index has one way to succeed.
MaxPieces == 2       \* links and stretches of text in one content

CharAtIx(s, i) == SubSeq(s, i, i)

\* the index after the longest run from i of characters outside stop
RunEnd(s, i, stop) ==
  CHOOSE j \in i..(Len(s) + 1) :
    /\ \A k \in i..(j - 1) : CharAtIx(s, k) \notin stop
    /\ (j = Len(s) + 1 \/ CharAtIx(s, j) \in stop)

NoMatch == [ok |-> FALSE]

\* WIKI_LINK_PATTERN tried at index i
WIKI_LINK_PATTERN(s, i) ==
  IF i + 1 > Len(s) \/ SubSeq(s, i, i + 1) # "[[" THEN NoMatch
  ELSE LET te == RunEnd(s, i + 2, {"]", "|"})
           hasBar == te <= Len(s) /\ CharAtIx(s, te) = "|"
           de == IF hasBar THEN RunEnd(s, te + 1, {"]"}) ELSE te
           withDisplay == hasBar /\ de > te + 1
           close == IF withDisplay THEN de ELSE te
       IN  IF te > i + 2 /\ close + 1 <= Len(s) /\ SubSeq(s, close, close + 1) = "]]"
           THEN [ok |-> TRUE,
                 group0 |-> SubSeq(s, i, close + 1),
                 group1 |-> SubSeq(s, i + 2, te - 1),
                 group2 |-> IF withDisplay THEN Some(SubSeq(s, te + 1, de - 1)) ELSE None,
                 end |-> close + 2]
           ELSE NoMatch

\* str.strip() of a target
strip_target(t) == rstrip_blank(lstrip_blank(t))

\* a replacer that retargets every link whose target starts with old_path
replacer_prefix(m, old_path, new_path) ==
  LET target == strip_target(m.group1) IN
  IF Len(target) >= Len(old_path) /\ SubSeq(target, 1, Len(old_path)) = old_path
  THEN "[[" \o new_path \o SubSeq(target, Len(old_path) + 1, Len(target))
            \o (IF m.group2.some THEN "|" \o m.group2.v ELSE "") \o "]]"
  ELSE m.group0

\* replace_link_target.replacer, lines 61-70
replacer(m, old_path, new_path) ==
  IF strip_target(m.group1) = old_path
  THEN IF m.group2.some
       THEN "[[" \o new_path \o "|" \o m.group2.v \o "]]"
       ELSE "[[" \o new_path \o "]]"
  ELSE m.group0

RECURSIVE pattern_sub(_, _, _, _)
\* WIKI_LINK_PATTERN.sub(replacer, content), from index i on
pattern_sub(s, i, old_path, new_path) ==
  IF i > Len(s) THEN ""
  ELSE LET m == WIKI_LINK_PATTERN(s, i) IN
       IF m.ok THEN replacer(m, old_path, new_path) \o pattern_sub(s, m.end, old_path, new_path)
       ELSE CharAtIx(s, i) \o pattern_sub(s, i + 1, old_path, new_path)

\* a content is put together from stretches of text and links
TextPieces == {[kind |-> "text", text |-> t] : t \in {"x ", "]|", "[x", "o/s\n"}}
LinkTargets == {"o", "o/s", "p"}
LinkPieces ==
  {[kind |-> "link", pad |-> pad, target |-> t, display |-> d] :
     pad \in {"", " "}, t \in LinkTargets, d \in {None, Some("d"), Some(" d|e ")}}
Pieces == TextPieces \cup LinkPieces
PieceLists == UNION { [1..n -> Pieces] : n \in 0..MaxPieces }
Renames == {<<"o", "n/w">>, <<"o/s", "o">>}

LinkText(pad, target, display) ==
  "[[" \o pad \o target \o pad \o (IF display.some THEN "|" \o display.v ELSE "") \o "]]"

RECURSIVE Render(_)
Render(ps) ==
  IF ps = <<>> THEN ""
  ELSE (IF Head(ps).kind = "text" THEN Head(ps).text
        ELSE LinkText(Head(ps).pad, Head(ps).target, Head(ps).display))
       \o Render(Tail(ps))

\* the pieces with the links to old_path retargeted
Repointed(ps, old_path, new_path) ==
  [i \in 1..Len(ps) |->
     IF ps[i].kind = "link" /\ ps[i].target = old_path
     THEN [kind |-> "link", pad |-> "", target |-> new_path, display |-> ps[i].display]
     ELSE ps[i]]

\* parser.replace_link_target called on a content, one call per content
replace_call(ps, old_path, new_path) ==
  /\ result.op = "init"
  /\ result' = [op |-> "replace_link_target", pieces |-> ps,
                old_path |-> old_path, new_path |-> new_path,
                out |-> pattern_sub(Render(ps), 1, old_path, new_path)]
  /\ UNCHANGED <<files, docs, blLinks, blLoaded, blFile, journal, failed>>

ReplaceNext ==
  \E ps \in PieceLists, r \in Renames : replace_call(ps, r[1], r[2]) /\ DataOnly

SpecReplace == Init /\ [][ReplaceNext]_vars

\* C35: replace_link_target(content, old, new) rewrites exactly the wiki
\* links whose trimmed target equals old, keeping each link's display text,
\* and leaves every other link - links to longer paths that have old as a
\* prefix included - and all text outside links unchanged.
C35_ExactTargetRewrite ==
  result.op = "replace_link_target" =>
    result.out = Render(Repointed(result.pieces, result.old_path, result.new_path))

\* a padded link to old with display text was rewritten next to a link to a
\* longer path, which stayed
C35_Witness ==
  /\ result.op = "replace_link_target"
  /\ result.old_path = "o"
  /\ Render(result.pieces) = "[[ o |d]][[o/s]]"
  /\ result.out = "[[n/w|d]][[o/s]]"

\* ------------------------------------------ two NoteService instances, one store
\* Each NoteService builds its own BacklinksIndex (note_service.py 75-80), so
\* _links and _loaded exist once per instance: here blLinks and blLoaded hold
\* one value per instance, and backlinks.json (blFile) is shared. Every call
\* runs to its end under the write or read lock.
Instances == {1, 2}
SharedPaths == {PathA, PathB}

SharedInit ==
  /\ LockInit0 /\ SvcInit0
  /\ gitRepo = TRUE /\ indexDir = "ok"
  /\ files = EmptyMap
  /\ docs = EmptyMap
  /\ blLinks = [i \in Instances |-> EmptyMap]
  /\ blLoaded = [i \in Instances |-> FALSE]
  /\ blFile = [exists |-> FALSE, links |-> EmptyMap]
  /\ journal = <<>>
  /\ failed = 0
  /\ result = [op |-> "init", status |-> "ok"]

\* BacklinksIndex._ensure_loaded of instance i, lines 53-67
LoadedBy(i) ==
  IF blLoaded[i] THEN blLinks[i]
  ELSE IF blFile.exists THEN blFile.links
  ELSE blLinks[i]

\* the backlink index of instance i after a call that changed it to ls and saved
SavedBy(i, ls) ==
  /\ blLinks' = [blLinks EXCEPT ![i] = ls]
  /\ blLoaded' = [blLoaded EXCEPT ![i] = TRUE]
  /\ blFile' = [exists |-> TRUE, links |-> ls]

\* NoteService.create_note on instance i
create_by(i, path, title, content) ==
  /\ Len(journal) < MaxCalls
  /\ LET note == NoteRec(title, content, <<>>)
         fs == With(files, path_to_file(path), note)
     IN  /\ files' = fs
         /\ docs' = With(docs, path, note)
         /\ SavedBy(i, update_note_links(LoadedBy(i), path, extract_links(content)))
         /\ journal' = Commit(fs, path, "create")
         /\ result' = [op |-> "create", status |-> "ok", by |-> i, path |-> path]
         /\ UNCHANGED failed

\* NoteService.delete_note on instance i, for a live note
delete_by(i, path) ==
  /\ Len(journal) < MaxCalls
  /\ path_to_file(path) \in DOMAIN files
  /\ LET fs == Without(files, path_to_file(path))
     IN  /\ files' = fs
         /\ docs' = Without(docs, path)
         /\ SavedBy(i, remove_note(LoadedBy(i), path))
         /\ journal' = Commit(fs, path, "delete")
         /\ result' = [op |-> "delete", status |-> "ok", by |-> i, path |-> path]
         /\ UNCHANGED failed

\* NoteService.get_backlinks on instance i
get_backlinks_by(i, path) ==
  /\ result' = [op |-> "get_backlinks", status |-> "ok", by |-> i, path |-> path,
                backlinks |-> get_backlinks(LoadedBy(i), path)]
  /\ blLinks' = [blLinks EXCEPT ![i] = LoadedBy(i)]
  /\ blLoaded' = [blLoaded EXCEPT ![i] = TRUE]
  /\ UNCHANGED <<files, docs, blFile, journal, failed>>

SharedNext ==
  \E i \in Instances :
    \/ \E p \in SharedPaths, c \in InContents : create_by(i, p, "T1", c) /\ DataOnly
    \/ \E p \in SharedPaths : delete_by(i, p) /\ DataOnly
    \/ \E p \in SharedPaths : get_backlinks_by(i, p) /\ DataOnly

SpecShared == SharedInit /\ [][SharedNext]_vars

\* C36: when two long-lived NoteService instances interleave mutations, each
\* write is applied on top of the backlink index as last persisted by
\* whichever instance wrote before it: the persisted index holds the links of
\* every stored note, whichever instance wrote it, and get_backlinks on
\* either instance returns them.
C36_InstancesShareIndex ==
  /\ blFile.exists =>
       \A t \in SharedPaths : get_backlinks(blFile.links, t) = FoundLinks(files, t)
  /\ result.op = "get_backlinks" =>
       result.backlinks = FoundLinks(files, result.path)

\* ------------------------------------------------- reads next to a move
\* update_note (with its move branch) in one context and the read operations
\* in the others, step by step; flock blocks and returns
ReadOps == {"read", "list", "search", "get_backlinks"}

\* the first context moves notes, every other context reads
OpsOf(c) == IF c = 1 THEN {"update"} ELSE ReadOps

MoveNext ==
  \E c \in SvcCtx :
    \/ \E op \in OpsOf(c) : StartOp(c, op) /\ SvcOnly
    \/ Branch(c) /\ SvcOnly
    \/ EnterScope(c) /\ SvcOnly
    \/ FlockReturns(c) /\ SvcOnly
    \/ ExitScope(c) /\ SvcOnly
    \/ Access(c) /\ SvcOnly
    \/ AccessRaises(c) /\ SvcOnly
    \/ UnwindScope(c) /\ SvcOnly
    \/ EndOp(c) /\ SvcOnly

SpecMove == SvcInit /\ [][MoveNext]_vars

\* context d is inside update_note between its first call into the store and
\* the release of its lock
MidUpdate(d) == curOp[d] = "update" /\ phase[d] = "in"

\* C37: a read operation (read, list, get_backlinks, search) that runs
\* concurrently with a move never observes an intermediate state: none of its
\* calls into storage or an index happens while another context is between
\* the first call of its update_note and the release of the lock, so the read
\* sees the store as it was before the move or as the finished move left it.
C37_ReadsSeeNoHalfMove ==
  (lastEvent.op = "access" /\ lastEvent.svcop \in ReadOps) =>
    \A d \in SvcCtx \ {lastEvent.ctx} : ~MidUpdate(d)

\* a read waits for the lock while a move has deleted the old file and has
\* not yet saved the new one
C37_Witness ==
  \E c \in SvcCtx, d \in SvcCtx :
    /\ curOp[c] \in ReadOps /\ pc[c] = "flock_sh"
    /\ MidUpdate(d)
    /\ prog[d] = <<Im, Bm, Sm, Im, Bm, Gm, X, RET>>

\* -------------------------------------------- the journal against storage
\* the note files a step changed: written, rewritten or removed
ChangedFiles ==
  {k \in DOMAIN files \cup DOMAIN files' :
     \/ k \notin DOMAIN files
     \/ k \notin DOMAIN files'
     \/ files[k] # files'[k]}

\* C38: after every completed mutating operation the journal's latest
\* snapshot matches storage for every note file the operation changed; for a
\* move that is the file at the new path, the removal of the file at the old
\* path and the rewritten content of every linking note.
C38_SnapshotMatchesStorage ==
  [][ MutationSucceeded =>
        \A k \in ChangedFiles :
          IF k \in DOMAIN files'
          THEN k \in DOMAIN HeadTree' /\ HeadTree'[k] = files'[k]
          ELSE k \notin DOMAIN HeadTree'
    ]_vars

\* ------------------------------------------------- links left after a move
\* C39: after a move with update_backlinks = true no live note's stored
\* content contains a link to the old path - the moved note itself included,
\* when it linked to its own old path - and every path listed in
\* backlinks_updated is a live note after the move.
C39_NoLinkToOldPath ==
  [][ \A p \in InPaths, n \in InPaths :
        Moved(p, n, TRUE) =>
          /\ \A k \in DOMAIN files' : LinesOf(files'[k].content, p) = <<>>
          /\ \A src \in result'.backlinks_updated : path_to_file(src) \in DOMAIN files'
    ]_vars

\* ------------------------------------------------------ waiting for the lock
\* Contexts that open and close properly nested scopes; flock blocks until the
\* lock can be granted and then returns (weak fairness of the grant).
NestNext ==
  \E c \in Ctx :
    \/ read_lock(c) /\ LockOnly
    \/ write_lock(c) /\ LockOnly
    \/ flock_granted(c) /\ LockOnly
    \/ \E raised \in BOOLEAN : scope_exit(c, raised) /\ LockOnly

SpecNest ==
  /\ LockInit
  /\ [][NestNext]_vars
  /\ \A c \in Ctx : WF_vars(flock_granted(c) /\ LockOnly)

Waiting(c) == pc[c] \in {"flock_sh", "flock_ex"}

\* the lock held through d's descriptor keeps c's request from being granted
Blocks(d, c) ==
  /\ Waiting(c)
  /\ \/ ofd[d] = "EX"
     \/ FlockOpAt(c) = "EX" /\ ofd[d] # "UN"

\* C40: the lock never deadlocks: with contexts (threads and processes) that
\* acquire and release in properly nested scopes (nested read, nested write,
\* read inside write), every holder a waiting context waits for is running
\* inside an open scope - it has not released and is not itself waiting - and
\* a context that waited forever would do so only because again and again some
\* running holder has the lock.
C40_NoDeadlock ==
  /\ [](\A c \in Ctx : \A d \in Ctx :
          Blocks(d, c) => pc[d] = "run" /\ scopes[d] # <<>>)
  /\ \A c \in Ctx :
       (<>[]Waiting(c)) => []<>(\E d \in Ctx : Blocks(d, c) /\ pc[d] = "run")

\* a reader and a writer wait while the holder is in a read scope nested in
\* its write scope
C40_Witness ==
  \E c \in Ctx : \E d \in Ctx \ {c} : \E e \in Ctx \ {c, d} :
    /\ pc[c] = "flock_ex" /\ pc[d] = "flock_sh"
    /\ scopes[e] = <<"outer_w", "r_in_w">>

====
